---- MODULE Spec2Model ----
(***************************************************************************)
(* A model of clara's trace-based CFG interpreter (clara/interpreter.py)   *)
(* with the Java semantics layer (clara/java_interpreter.py).              *)
(*                                                                         *)
(* Strings are sequences of code points, so ord/chr, int <-> text and the  *)
(* literal parser are computed, not assumed.  A runtime value is a record  *)
(* tagged by its Python type.  Floats are outside the modelled value       *)
(* domain: an evaluation that would need one raises the marker exception   *)
(* "Unmodelled", which the invariant ModelCovers shows is never reached.   *)
(***************************************************************************)
EXTENDS Integers, Sequences, FiniteSets, TLC

\* ------------------------------------------------------------------------
\* Text
\* ------------------------------------------------------------------------
Letters == <<"a","b","c","d","e","f","g","h","i","j","k","l","m",
             "n","o","p","q","r","s","t","u","v","w","x","y","z">>
Digits == <<"0","1","2","3","4","5","6","7","8","9">>

\* code point of a one-character text
CP(c) ==
    IF \E i \in 1..26 : Letters[i] = c
    THEN 96 + (CHOOSE i \in 1..26 : Letters[i] = c)
    ELSE IF \E i \in 1..10 : Digits[i] = c
    THEN 47 + (CHOOSE i \in 1..10 : Digits[i] = c)
    ELSE CASE c = "\"" -> 34
           [] c = "'" -> 39
           [] c = "?" -> 63
           [] c = "-" -> 45
           [] c = "+" -> 43
           [] c = "." -> 46
           [] c = " " -> 32
           [] c = "\\" -> 92
           [] c = "\n" -> 10
           [] c = "T" -> 84
           [] c = "F" -> 70
           [] c = "N" -> 78
           [] c = "S" -> 83
           [] c = "<" -> 60
           [] c = ">" -> 62
           [] c = "[" -> 91
           [] c = "]" -> 93
           [] c = "," -> 44

\* the text whose characters are cs
S(cs) == [i \in 1..Len(cs) |-> CP(cs[i])]

IsDigit(cp) == cp \in 48..57
IsLower(cp) == cp \in 97..122

\* ------------------------------------------------------------------------
\* Runtime values and exceptions
\* ------------------------------------------------------------------------
UndefValue == [t |-> "undef"]
None == [t |-> "null"]
IntV(i) == [t |-> "int", v |-> i]
BoolV(b) == [t |-> "bool", v |-> b]
StrV(s) == [t |-> "str", v |-> s]
ListV(l) == [t |-> "list", v |-> l]
\* a float with an integer value
FloatV(i) == [t |-> "float", v |-> i]

isundef(x) == x.t = "undef"

\* a fallible computation yields a value or raises an exception kind
Ok(v) == [val |-> v, exc |-> "none", msg |-> ""]
Raise(k) == [val |-> UndefValue, exc |-> k, msg |-> ""]
RaiseM(k, m) == [val |-> UndefValue, exc |-> k, msg |-> m]

\* Python truthiness (UndefValue defines no __bool__, so it is true)
Truthy(x) ==
    CASE x.t = "undef" -> TRUE
      [] x.t = "null" -> FALSE
      [] x.t = "int" -> x.v # 0
      [] x.t = "bool" -> x.v
      [] x.t = "str" -> Len(x.v) > 0
      [] x.t = "list" -> Len(x.v) > 0

\* Python's `v in [True, False]`: bool is an int, 1 == True and 0 == False
InTrueFalse(v) == v.t = "bool" \/ (v.t = "int" /\ v.v \in {0, 1})

\* isinstance(v, int): bool is a subclass of int
IsInt(v) == v.t \in {"int", "bool"}

\* the integer a bool or int stands for
AsInt(v) == IF v.t = "bool" THEN (IF v.v THEN 1 ELSE 0) ELSE v.v

\* ------------------------------------------------------------------------
\* Types: a declared type is a sequence, <<"int">> or <<"int", "[]">>
\* ------------------------------------------------------------------------
T_int == <<"int">>
T_char == <<"char">>
T_float == <<"float">>
T_any == <<"*">>
T_bool == <<"boolean">>
T_String == <<"String">>
ArrayOf(t) == Append(t, "[]")

RECURSIVE convert(_, _)
RECURSIVE convertElems(_, _)

\* JavaInterpreter.convert, the element-wise case
convertElems(l, st) ==
    IF l = <<>> THEN Ok(<<>>)
    ELSE LET h == IF l[1] = None THEN Ok(None) ELSE convert(l[1], st)
         IN  IF h.exc # "none" THEN h
             ELSE LET r == convertElems(Tail(l), st)
                  IN  IF r.exc # "none" THEN r
                      ELSE Ok(<<h.val>> \o r.val)

\* a variant of convert that makes null of Undef
convert_UndefAsNull(val, t) ==
    IF isundef(val) THEN Ok(None)
    ELSE IF val = None THEN Ok(None)
    ELSE IF t = T_int THEN
        IF InTrueFalse(val) THEN Ok(IntV(AsInt(val)))
        ELSE IF val.t = "str" THEN
            (IF Len(val.v) = 1 THEN Ok(IntV(val.v[1])) ELSE Raise("TypeError"))
        ELSE IF val.t = "int" THEN Ok(val)
        ELSE Raise("TypeError")
    ELSE IF t = T_float THEN
        IF IsInt(val) THEN Ok(FloatV(AsInt(val)))
        ELSE IF val.t = "float" THEN Ok(val)
        ELSE IF val.t = "list" THEN Raise("TypeError")
        ELSE Raise("Unmodelled")
    ELSE IF t = T_char THEN
        IF IsInt(val) THEN
            (IF AsInt(val) \in 0..1114111 THEN Ok(StrV(<<AsInt(val)>>))
             ELSE Raise("ValueError"))
        ELSE IF val.t # "str" \/ Len(val.v) > 2 THEN Raise("RuntimeErr")
        ELSE IF val.v = <<92, 92>> THEN Ok(StrV(<<92>>))
        ELSE IF val.v = <<>> THEN Raise("IndexError")
        ELSE Ok(StrV(<<val.v[1]>>))
    ELSE IF t[Len(t)] = "[]" THEN
        IF val.t = "list"
        THEN LET r == convertElems(val.v, SubSeq(t, 1, Len(t) - 1))
             IN  IF r.exc # "none" THEN r ELSE Ok(ListV(r.val))
        ELSE Raise("RuntimeErr")
    ELSE Ok(val)

\* JavaInterpreter.convert
convert(val, t) ==
    IF isundef(val) THEN Ok(val)
    ELSE IF val = None THEN Ok(None)
    ELSE IF t = T_int THEN
        IF InTrueFalse(val) THEN Ok(IntV(AsInt(val)))
        ELSE IF val.t = "str" THEN
            (IF Len(val.v) = 1 THEN Ok(IntV(val.v[1])) ELSE Raise("TypeError"))
        ELSE IF val.t = "int" THEN Ok(val)
        ELSE Raise("TypeError")
    ELSE IF t = T_float THEN
        IF IsInt(val) THEN Ok(FloatV(AsInt(val)))
        ELSE IF val.t = "float" THEN Ok(val)
        ELSE IF val.t = "list" THEN Raise("TypeError")
        ELSE Raise("Unmodelled")
    ELSE IF t = T_char THEN
        IF IsInt(val) THEN
            (IF AsInt(val) \in 0..1114111 THEN Ok(StrV(<<AsInt(val)>>))
             ELSE Raise("ValueError"))
        ELSE IF val.t # "str" \/ Len(val.v) > 2 THEN Raise("RuntimeErr")
        ELSE IF val.v = <<92, 92>> THEN Ok(StrV(<<92>>))
        ELSE IF val.v = <<>> THEN Raise("IndexError")
        ELSE Ok(StrV(<<val.v[1]>>))
    ELSE IF t[Len(t)] = "[]" THEN
        IF val.t = "list"
        THEN LET r == convertElems(val.v, SubSeq(t, 1, Len(t) - 1))
             IN  IF r.exc # "none" THEN r ELSE Ok(ListV(r.val))
        ELSE Raise("RuntimeErr")
    ELSE Ok(val)

\* JavaInterpreter.tonumeric
tonumeric(v) ==
    IF InTrueFalse(v) THEN Ok(IntV(AsInt(v)))
    ELSE IF v.t # "int" THEN RaiseM("RuntimeErr", "Non-numeric value")
    ELSE Ok(v)

\* ------------------------------------------------------------------------
\* IR model (clara/model.py): names, expressions, functions, programs
\* ------------------------------------------------------------------------
\* A variable name is <<base, k>>: the base followed by k prime marks.
VAR_IN == <<"$in", 0>>
VAR_OUT == <<"$out", 0>>
VAR_RET == <<"$ret", 0>>
VAR_COND == <<"$cond", 0>>

prime(var) == <<var[1], var[2] + 1>>
unprime(var) == <<var[1], var[2] - 1>>
isprimed(var) == var[2] > 0
N(base) == <<base, 0>>

\* Var(name, primed, type); type <<>> is "no static type"
Var(name) == [k |-> "Var", name |-> name, primed |-> FALSE, type |-> <<>>]
VarP(name) == [k |-> "Var", name |-> name, primed |-> TRUE, type |-> <<>>]
VarT(name, type) == [k |-> "Var", name |-> name, primed |-> FALSE, type |-> type]
Const(value) == [k |-> "Const", value |-> value]
Op(name, args) == [k |-> "Op", name |-> name, args |-> args, type |-> <<>>]
OpT(name, args, type) == [k |-> "Op", name |-> name, args |-> args, type |-> type]

\* Var.tostr: the memory key a Var reads
tostr(v) == IF v.primed THEN prime(v.name) ELSE v.name

NoLoc == 0

\* Function.exprs / numtrans / trans / gettype
exprs(fnc, loc) == fnc.locexprs[loc]

numtrans(fnc, loc) ==
    (IF fnc.loctrans[loc].T # NoLoc THEN 1 ELSE 0)
    + (IF fnc.loctrans[loc].F # NoLoc THEN 1 ELSE 0)

\* the transition table of a location is keyed by True and False; a key
\* that is neither (None, for a condition never assigned) is a KeyError
trans(fnc, loc, cond) ==
    IF InTrueFalse(cond)
    THEN Ok(IF AsInt(cond) = 1 THEN fnc.loctrans[loc].T ELSE fnc.loctrans[loc].F)
    ELSE Raise("KeyError")

\* gettype(var) or '*'
gettype(fnc, var) ==
    IF var \in DOMAIN fnc.types THEN fnc.types[var] ELSE T_any

\* ------------------------------------------------------------------------
\* Memory: a dict from names to values
\* ------------------------------------------------------------------------
EmptyMem == [x \in {} |-> UndefValue]
Put(mem, var, val) ==
    [x \in DOMAIN mem \cup {var} |-> IF x = var THEN val ELSE mem[x]]
Get(mem, var, default) == IF var \in DOMAIN mem THEN mem[var] ELSE default

\* a variant of procmem that carries nothing forward: the continuing memory
\* has only the variables written in the step
procmem_WrittenOnly(mem) ==
    LET written == {v \in DOMAIN mem : isprimed(v)}
    IN  [newmem |-> [v \in {unprime(w) : w \in written} |-> mem[prime(v)]],
         mem |-> mem]

\* Interpreter.procmem: the pair (newmem, mem)
procmem(mem) ==
    LET carried == {v \in DOMAIN mem : ~isprimed(v) /\ prime(v) \notin DOMAIN mem}
        written == {v \in DOMAIN mem : isprimed(v)}
        names == {unprime(v) : v \in written} \cup carried
    IN  [newmem |-> [v \in names |->
                        IF prime(v) \in DOMAIN mem THEN mem[prime(v)] ELSE mem[v]],
         mem |-> [v \in DOMAIN mem \cup {prime(c) : c \in carried} |->
                        IF v \in DOMAIN mem THEN mem[v] ELSE mem[unprime(v)]]]

\* ------------------------------------------------------------------------
\* Text conversions: str(), int(), escapes, the output filter
\* ------------------------------------------------------------------------
RECURSIVE NatToStr(_)
NatToStr(n) == IF n < 10 THEN <<48 + n>> ELSE NatToStr(n \div 10) \o <<48 + (n % 10)>>

\* str(i) for an int
IntToStr(i) == IF i < 0 THEN <<45>> \o NatToStr(0 - i) ELSE NatToStr(i)

RECURSIVE StrToNat(_, _)
StrToNat(s, acc) ==
    IF s = <<>> THEN acc ELSE StrToNat(Tail(s), 10 * acc + (s[1] - 48))

AllDigits(s) == Len(s) > 0 /\ \A i \in 1..Len(s) : IsDigit(s[i])

\* the shapes int(text) accepts that the model covers: [+-]digits
IsIntText(s) ==
    \/ AllDigits(s)
    \/ Len(s) > 1 /\ s[1] \in {43, 45} /\ AllDigits(Tail(s))

ParseInt(s) ==
    IF s[1] = 45 THEN 0 - StrToNat(Tail(s), 0)
    ELSE IF s[1] = 43 THEN StrToNat(Tail(s), 0)
    ELSE StrToNat(s, 0)

\* the texts the conversions name, as code points
Txt_True == <<84, 114, 117, 101>>
Txt_False == <<70, 97, 108, 115, 101>>
Txt_None == <<78, 111, 110, 101>>
Txt_undef == <<60, 117, 110, 100, 101, 102, 62>>
Txt_null == <<110, 117, 108, 108>>
Txt_true == <<116, 114, 117, 101>>
Txt_false == <<102, 97, 108, 115, 101>>

\* texts neither int() nor float() accepts: lower-case words other than
\* the float words inf, nan, infinity
FloatWords == {<<105, 110, 102>>, <<110, 97, 110>>,
               <<105, 110, 102, 105, 110, 105, 116, 121>>}
IsWordText(s) ==
    Len(s) > 0 /\ (\A i \in 1..Len(s) : IsLower(s[i])) /\ s \notin FloatWords

RECURSIVE JoinReprs(_)
\* ', '.join(repr(x)) for the elements of a list of ints, bools and None
JoinReprs(l) ==
    IF l = <<>> THEN Ok(<<>>)
    ELSE LET h == CASE l[1].t = "int" -> Ok(IntToStr(l[1].v))
                    [] l[1].t = "bool" -> Ok(IF l[1].v THEN Txt_True ELSE Txt_False)
                    [] l[1].t = "null" -> Ok(Txt_None)
                    [] l[1].t = "undef" -> Ok(Txt_undef)
                    [] OTHER -> Raise("Unmodelled")
             r == JoinReprs(Tail(l))
         IN  IF h.exc # "none" THEN h
             ELSE IF r.exc # "none" THEN r
             ELSE Ok(IF Len(l) = 1 THEN h.val ELSE h.val \o <<44, 32>> \o r.val)

\* str(v): the text of a runtime value
PyStr(v) ==
    CASE v.t = "int" -> Ok(IntToStr(v.v))
      [] v.t = "bool" -> Ok(IF v.v THEN Txt_True ELSE Txt_False)
      [] v.t = "null" -> Ok(Txt_None)
      [] v.t = "undef" -> Ok(Txt_undef)
      [] v.t = "str" -> Ok(v.v)
      [] v.t = "list" ->
            LET r == JoinReprs(v.v)
            IN  IF r.exc # "none" THEN r ELSE Ok(<<91>> \o r.val \o <<93>>)

RECURSIVE unescape_chars(_)
\* Interpreter.unescape_chars
unescape_chars(s) ==
    IF s = <<>> THEN <<>>
    ELSE IF s[1] = 92 /\ Len(s) > 1 THEN
        CASE s[2] = 116 -> <<9>> \o unescape_chars(SubSeq(s, 3, Len(s)))
          [] s[2] = 98 -> <<8>> \o unescape_chars(SubSeq(s, 3, Len(s)))
          [] s[2] = 110 -> <<10>> \o unescape_chars(SubSeq(s, 3, Len(s)))
          [] s[2] = 114 -> <<13>> \o unescape_chars(SubSeq(s, 3, Len(s)))
          [] s[2] = 39 -> <<39>> \o unescape_chars(SubSeq(s, 3, Len(s)))
          [] s[2] = 34 -> <<34>> \o unescape_chars(SubSeq(s, 3, Len(s)))
          [] s[2] = 92 -> <<92>> \o unescape_chars(SubSeq(s, 3, Len(s)))
          [] OTHER -> <<92>> \o unescape_chars(Tail(s))
    ELSE <<s[1]>> \o unescape_chars(Tail(s))

\* ''.join(re.findall(pattern, s)) for the two patterns the model covers:
\* '.*' matches every maximal run without a newline (and empty matches),
\* '\d+' every maximal run of digits
NotNewline(cp) == cp # 10
FindallJoin(pattern, s) ==
    IF pattern = ".*" THEN SelectSeq(s, NotNewline) ELSE SelectSeq(s, IsDigit)

\* JavaInterpreter.execute_Const
execute_Const(c) ==
    LET v == c.value IN
    IF v = Txt_null THEN Ok(None)
    ELSE IF v = <<63>> THEN Ok(UndefValue)
    ELSE IF Len(v) >= 2 /\ v[1] = 34 /\ v[Len(v)] = 34
        THEN Ok(StrV(SubSeq(v, 2, Len(v) - 1)))
    ELSE IF Len(v) >= 3 /\ v[1] = 39 /\ v[Len(v)] = 39
        THEN Ok(StrV(SubSeq(v, 2, Len(v) - 1)))
    ELSE IF v = Txt_true THEN Ok(BoolV(TRUE))
    ELSE IF v = Txt_false THEN Ok(BoolV(FALSE))
    ELSE IF IsIntText(v) THEN Ok(IntV(ParseInt(v)))
    ELSE IF IsWordText(v) THEN Raise("AssertionError")
    ELSE Raise("Unmodelled")

\* ------------------------------------------------------------------------
\* Java operators (JavaInterpreter)
\* ------------------------------------------------------------------------
BINARY_OPS == {"+", "-", "*", "/", "%", "<", "<=", ">", ">=", "==", "!=",
               "^", "&", "!", "&&", "||", "<<", ">>"}
BINARY_BOOL_OPS == {"==", "!=", "&&", "||", "<", "<=", ">", ">="}
UNARY_OPS == {"!", "-", "+"}

Abs(i) == IF i < 0 THEN 0 - i ELSE i

\* int(x / y): the quotient truncated toward zero
TruncDiv(x, y) ==
    IF (x < 0) = (y < 0) THEN Abs(x) \div Abs(y) ELSE 0 - (Abs(x) \div Abs(y))

\* Python's x % y: the result has the sign of y
PyMod(x, y) ==
    IF y > 0 THEN x % y ELSE 0 - ((0 - x) % (0 - y))

RECURSIVE BitOp(_, _, _)
\* x ^ y, x | y and x & y on non-negative ints
BitOp(op, x, y) ==
    IF x = 0 /\ y = 0 THEN 0
    ELSE LET a == x % 2
             b == y % 2
             bit == IF op = "^" THEN (IF a # b THEN 1 ELSE 0)
                    ELSE IF op = "|" THEN (IF a = 1 \/ b = 1 THEN 1 ELSE 0)
                    ELSE (IF a = 1 /\ b = 1 THEN 1 ELSE 0)
         IN  bit + 2 * BitOp(op, x \div 2, y \div 2)

RECURSIVE Pow2(_)
Pow2(n) == IF n = 0 THEN 1 ELSE 2 * Pow2(n - 1)

RECURSIVE SeqLess(_, _)
\* lexicographic order of two texts
SeqLess(a, b) ==
    IF b = <<>> THEN FALSE
    ELSE IF a = <<>> THEN TRUE
    ELSE IF a[1] # b[1] THEN a[1] < b[1]
    ELSE SeqLess(Tail(a), Tail(b))

\* x == y in Python, for values without nested lists
PyEq(x, y) ==
    IF IsInt(x) /\ IsInt(y) THEN AsInt(x) = AsInt(y)
    ELSE IF x.t = "list" /\ y.t = "list" THEN
        /\ Len(x.v) = Len(y.v)
        /\ \A i \in 1..Len(x.v) :
              IF IsInt(x.v[i]) /\ IsInt(y.v[i]) THEN AsInt(x.v[i]) = AsInt(y.v[i])
              ELSE x.v[i] = y.v[i]
    ELSE x = y

\* JavaInterpreter.togreater: only floats are widened, and the model has none
togreater(x, y) == <<x, y>>

\* execute_BinaryOp from line 130 on: char promotion, the operator, the
\* int() of an integer result (t is the static type of a left Var operand)
BinApply(op, x0, y0, t) ==
    LET x == IF x0.t = "str" /\ IsInt(y0) /\ Len(x0.v) = 1 THEN IntV(x0.v[1]) ELSE x0
        y == IF y0.t = "str" /\ IsInt(x) /\ Len(y0.v) = 1 THEN IntV(y0.v[1]) ELSE y0
        ints == IsInt(x) /\ IsInt(y)
        strs == x.t = "str" /\ y.t = "str"
        a == AsInt(x)
        b == AsInt(y)
        Num(n) == IF t # <<>> /\ t # T_int /\ op = "/" THEN Raise("Unmodelled")
                  ELSE Ok(IntV(n))
        Mixed == IF x.t = "null" \/ y.t = "null" THEN Raise("TypeError")
                 ELSE Raise("Unmodelled")
    IN
    CASE op = "+" -> IF ints THEN Num(a + b)
                     ELSE IF strs THEN Ok(StrV(x.v \o y.v))
                     ELSE IF x.t = "list" /\ y.t = "list" THEN Ok(ListV(x.v \o y.v))
                     ELSE Mixed
      [] op = "-" -> IF ints THEN Num(a - b)
                     ELSE IF strs THEN Raise("TypeError") ELSE Mixed
      [] op = "*" -> IF ints THEN Num(a * b)
                     ELSE IF strs THEN Raise("TypeError") ELSE Mixed
      [] op = "/" -> IF ints THEN (IF b = 0 THEN Raise("ZeroDivisionError")
                                   ELSE Num(TruncDiv(a, b)))
                     ELSE IF strs THEN Raise("TypeError") ELSE Mixed
      [] op = "%" -> IF ints THEN (IF b = 0 THEN Raise("ZeroDivisionError")
                                   ELSE Num(PyMod(a, b)))
                     ELSE Mixed
      [] op = "==" -> Ok(BoolV(PyEq(x, y)))
      [] op = "!=" -> Ok(BoolV(~PyEq(x, y)))
      [] op \in {"<", "<=", ">", ">="} ->
            IF ints THEN Ok(BoolV(CASE op = "<" -> a < b [] op = "<=" -> a <= b
                                    [] op = ">" -> a > b [] op = ">=" -> a >= b))
            ELSE IF strs THEN
                Ok(BoolV(CASE op = "<" -> SeqLess(x.v, y.v)
                           [] op = "<=" -> ~SeqLess(y.v, x.v)
                           [] op = ">" -> SeqLess(y.v, x.v)
                           [] op = ">=" -> ~SeqLess(x.v, y.v)))
            ELSE Mixed
      [] op \in {"^", "&", "|"} ->
            IF x.t = "bool" /\ y.t = "bool" /\ t # <<>> /\ t # T_int
            THEN Ok(BoolV(BitOp(op, a, b) = 1))
            ELSE IF ints THEN (IF a >= 0 /\ b >= 0 THEN Num(BitOp(op, a, b))
                          ELSE Raise("Unmodelled"))
            ELSE IF strs THEN Raise("TypeError") ELSE Mixed
      [] op \in {"<<", ">>"} ->
            IF ints THEN (IF b < 0 THEN Raise("ValueError")
                          ELSE IF a < 0 THEN Raise("Unmodelled")
                          ELSE Num(IF op = "<<" THEN a * Pow2(b) ELSE a \div Pow2(b)))
            ELSE IF strs THEN Raise("TypeError") ELSE Mixed
      [] OTHER -> Raise("AssertionError")

\* the operator of execute_UnaryOp applied to a numeric operand
UnApply(op, x) ==
    CASE op = "-" -> tonumeric(IntV(0 - x.v))
      [] op = "+" -> tonumeric(x)
      [] op = "!" -> tonumeric(BoolV(x.v = 0))
      [] OTHER -> Raise("AssertionError")

\* ------------------------------------------------------------------------
\* Bounds
\* ------------------------------------------------------------------------
\* activations on the call stack the model follows
MaxDepth == 4
\* run invocations on the one engine instance
MaxRuns == 2
\* the wall clock stops advancing here
MaxClock == 6
\* the steps a run under a timeout budget is followed for
MaxTrace == 6
\* the timeout budget T of the engines built with one
Budget == 2

\* ------------------------------------------------------------------------
\* Programs: the CFGs the engine is run on
\* ------------------------------------------------------------------------
Fn(name, params, rettype, types, initloc, locexprs, loctrans) ==
    [k |-> "Function", name |-> name, params |-> params, rettype |-> rettype,
     types |-> types, initloc |-> initloc, locexprs |-> locexprs,
     loctrans |-> loctrans]

\* transition tables of a location: none, unconditional, two-way
End == [T |-> NoLoc, F |-> NoLoc]
Goto(l) == [T |-> l, F |-> NoLoc]
Branch(t, f) == [T |-> t, F |-> f]

Lit(cs) == Const(S(cs))
Quoted(cs) == Const(<<34>> \o S(cs) \o <<34>>)
Call(f, args) == Op("FuncCall", <<Var(N(f))>> \o args)
Println(cs) == Op("StrAppend", <<Var(VAR_OUT), Quoted(cs)>>)

\* swap: simultaneous assignment of x and y (the reads of loc 2 follow a
\* write of the same location)
F_swap ==
    Fn("swap", <<<<N("a"), T_int>>, <<N("b"), T_int>>>>, T_int,
       (N("a") :> T_int) @@ (N("b") :> T_int) @@ (N("x") :> T_int) @@ (N("y") :> T_int),
       1,
       <<  <<<<N("x"), Var(N("a"))>>, <<N("y"), Var(N("b"))>>>>,
           <<<<N("x"), Op("+", <<Var(N("y")), Lit(<<"1">>)>>)>>,
             <<N("y"), Var(N("x"))>>,
             <<N("z"), VarP(N("x"))>>>>,
           <<<<VAR_RET, Op("-", <<Var(N("x")), Var(N("y"))>>)>>>> >>,
       <<Goto(2), Goto(3), End>>)

\* side: prints and returns 7
F_side ==
    Fn("side", <<>>, T_int, (N("w") :> T_int), 1,
       << <<<<VAR_OUT, Println(<<"s">>)>>, <<VAR_RET, Lit(<<"7">>)>>>> >>,
       <<End>>)

\* early: returns at loc 1 when a > 0, with an append and a call following
\* the return pair in the same location
F_early ==
    Fn("early", <<<<N("a"), T_int>>>>, T_int,
       (N("a") :> T_int) @@ (N("z") :> T_int),
       1,
       <<  <<<<VAR_RET, Op("ite", <<Op(">", <<Var(N("a")), Lit(<<"0">>)>>),
                                     Var(N("a")), Lit(<<"?">>)>>)>>,
             <<VAR_OUT, Println(<<"x">>)>>,
             <<N("z"), Call("side", <<>>)>>>>,
           <<<<VAR_OUT, Println(<<"y">>)>>>>,
           <<>> >>,
       <<Goto(2), Goto(3), End>>)

\* sum: adds the first n elements of [1, 2, 3] in a loop
F_sum ==
    Fn("sum", <<<<N("n"), T_int>>>>, T_int,
       (N("n") :> T_int) @@ (N("i") :> T_int) @@ (N("s") :> T_int)
           @@ (N("arr") :> ArrayOf(T_int)),
       1,
       <<  <<<<N("arr"), Op("ArrayInit", <<Lit(<<"1">>), Lit(<<"2">>), Lit(<<"3">>)>>)>>,
             <<N("i"), Lit(<<"0">>)>>,
             <<N("s"), Lit(<<"0">>)>>>>,
           <<<<VAR_COND, Op("<", <<Var(N("i")), Var(N("n"))>>)>>>>,
           <<<<N("s"), Op("+", <<Var(N("s")), Op("[]", <<Var(N("arr")), Var(N("i"))>>)>>)>>,
             <<N("i"), Op("+", <<Var(N("i")), Lit(<<"1">>)>>)>>>>,
           <<<<VAR_RET, Var(N("s"))>>>> >>,
       <<Goto(2), Branch(3, 4), Goto(2), End>>)

\* fact: recursive factorial; tmp is declared and assigned only at loc 3
F_fact ==
    Fn("fact", <<<<N("n"), T_int>>>>, T_int,
       (N("n") :> T_int) @@ (N("tmp") :> T_int),
       1,
       <<  <<<<VAR_COND, Op("<=", <<Var(N("n")), Lit(<<"1">>)>>)>>>>,
           <<<<VAR_RET, Lit(<<"1">>)>>>>,
           <<<<N("tmp"), Op("-", <<Var(N("n")), Lit(<<"1">>)>>)>>>>,
           <<<<VAR_RET, Op("*", <<Var(N("n")), Call("fact", <<Var(N("tmp"))>>)>>)>>>> >>,
       <<Branch(2, 3), End, Goto(4), End>>)

\* id: hands its int parameter back untyped; pass: calls id with its own
\* untyped parameter; none: ends without defining its return variable
F_id ==
    Fn("id", <<<<N("x"), T_int>>>>, T_any,
       (N("x") :> T_int) @@ (N("y") :> T_any),
       1,
       <<  <<<<N("y"), Var(N("x"))>>>>,
           <<<<VAR_RET, Var(N("y"))>>>> >>,
       <<Goto(2), End>>)
F_pass ==
    Fn("pass", <<<<N("v"), T_any>>>>, T_any,
       (N("v") :> T_any), 1,
       <<  <<<<VAR_RET, Call("id", <<Var(N("v"))>>)>>>> >>,
       <<End>>)
F_none ==
    Fn("none", <<>>, T_int, (N("u") :> T_int), 1,
       <<  <<<<N("u"), Lit(<<"5">>)>>>> >>,
       <<End>>)
F_callnone ==
    Fn("callnone", <<>>, T_any, (N("r") :> T_any), 1,
       <<  <<<<N("r"), Call("none", <<>>)>>>>,
           <<<<VAR_RET, Op("ArrayInit", <<Var(N("r"))>>)>>>> >>,
       <<Goto(2), End>>)

\* two: two parameters; callone calls it with one argument
F_two ==
    Fn("two", <<<<N("a"), T_int>>, <<N("b"), T_int>>>>, T_any,
       (N("a") :> T_int) @@ (N("b") :> T_int), 1,
       <<  <<<<VAR_RET, Op("ArrayInit", <<Var(N("a")), Var(N("b"))>>)>>>> >>,
       <<End>>)
F_callone ==
    Fn("callone", <<>>, T_any, (N("r") :> T_any), 1,
       <<  <<<<VAR_OUT, Println(<<"c">>)>>>>,
           <<<<VAR_RET, Call("two", <<Lit(<<"1">>)>>)>>>> >>,
       <<Goto(2), End>>)

\* fault: one faulty expression per value of k, after one good step
FaultExpr(k) ==
    CASE k = 0 -> Op("/", <<Lit(<<"1">>), Lit(<<"0">>)>>)
      [] k = 1 -> Lit(<<"a","b","c">>)
      [] k = 2 -> Op("|", <<Lit(<<"1">>), Lit(<<"2">>)>>)
      [] k = 3 -> Op("-", <<Lit(<<"1">>), Lit(<<"2">>), Lit(<<"3">>)>>)
      [] k = 4 -> OpT("ClassCreate", <<>>, <<"Random">>)
      [] k = 5 -> Op("[]", <<Op("ArrayInit", <<Lit(<<"1">>)>>), Lit(<<"-","1">>)>>)
      [] k = 6 -> Op("!", <<Lit(<<"1">>), Lit(<<"2">>)>>)
      [] k = 7 -> Op("+", <<Lit(<<"n","u","l","l">>), Lit(<<"1">>)>>)
      [] k = 8 -> Call("nosuch", <<>>)
      [] k = 9 -> Op("-", <<Quoted(<<"a","b">>)>>)
NumFaults == 10
\* the pair of loc j + 2: the fault when k = j, else Undef (and the
\* activation moves to the next location)
FaultPair(j) ==
    <<VAR_RET, Op("ite", <<Op("==", <<Var(N("k")), Const(IntToStr(j))>>),
                          FaultExpr(j), Lit(<<"?">>)>>)>>
F_fault ==
    Fn("fault", <<<<N("k"), T_int>>>>, T_any,
       (N("k") :> T_int), 1,
       [l \in 1..(NumFaults + 1) |->
           IF l = 1 THEN <<<<VAR_OUT, Println(<<"o","k">>)>>>>
           ELSE <<FaultPair(l - 2)>>],
       [l \in 1..(NumFaults + 1) |-> IF l <= NumFaults THEN Goto(l + 1) ELSE End])
\* callfault: the fault happens inside a nested activation
F_callfault ==
    Fn("callfault", <<<<N("k"), T_int>>>>, T_any,
       (N("k") :> T_int), 1,
       <<  <<<<VAR_RET, Call("fault", <<Var(N("k"))>>)>>>> >>,
       <<End>>)

\* spin: a cycle of one location that assigns x and never returns; idle: a
\* cycle through two locations without expressions; callspin: spin inside a
\* nested activation
F_spin ==
    Fn("spin", <<>>, T_int, (N("x") :> T_int), 1,
       <<  <<<<N("x"), Lit(<<"0">>)>>>> >>,
       <<Goto(1)>>)
F_idle ==
    Fn("idle", <<>>, T_int, (N("x") :> T_int), 1,
       <<  <<>>, <<>> >>,
       <<Goto(2), Goto(1)>>)
F_callspin ==
    Fn("callspin", <<>>, T_int, (N("x") :> T_int), 1,
       <<  <<<<N("x"), Lit(<<"1">>)>>>>,
           <<<<VAR_RET, Call("spin", <<>>)>>>> >>,
       <<Goto(2), End>>)
\* mk: returns the array [2, 1]; sortcall: sorts the array mk returns;
\* sortown: a step after building its array a, assigns a, sorts a and reads
\* a in one location
F_mk ==
    Fn("mk", <<>>, ArrayOf(T_int), (N("a") :> ArrayOf(T_int)), 1,
       <<  <<<<VAR_RET, Op("ArrayInit", <<Lit(<<"2">>), Lit(<<"1">>)>>)>>>> >>,
       <<End>>)
F_sortcall ==
    Fn("sortcall", <<>>, T_any, (N("u") :> T_any), 1,
       <<  <<<<N("u"), Op("sort", <<Call("mk", <<>>)>>)>>>>,
           <<<<VAR_RET, Lit(<<"0">>)>>>> >>,
       <<Goto(2), End>>)
F_sortown ==
    Fn("sortown", <<>>, ArrayOf(T_int),
       (N("a") :> ArrayOf(T_int)) @@ (N("b") :> ArrayOf(T_int)) @@ (N("u") :> T_any),
       1,
       <<  <<<<N("a"), Op("ArrayInit", <<Lit(<<"2">>), Lit(<<"1">>)>>)>>>>,
           <<<<N("a"), Op("ArrayInit", <<Lit(<<"3">>)>>)>>,
             <<N("u"), Op("sort", <<Var(N("a"))>>)>>,
             <<N("b"), Var(N("a"))>>>>,
           <<<<VAR_RET, Var(N("a"))>>>> >>,
       <<Goto(2), Goto(3), End>>)

\* read: consumes one input value and returns it; readtwice: calls read,
\* then consumes one input value itself, and returns both
F_read ==
    Fn("read", <<>>, T_int, (N("x") :> T_int), 1,
       <<  <<<<N("x"), Op("ListHead", <<Const(T_int), Var(VAR_IN)>>)>>,
             <<VAR_IN, Op("ListTail", <<Var(VAR_IN)>>)>>>>,
           <<<<VAR_RET, Var(N("x"))>>>> >>,
       <<Goto(2), End>>)
F_readtwice ==
    Fn("readtwice", <<>>, T_any, (N("a") :> T_int) @@ (N("b") :> T_int), 1,
       <<  <<<<N("a"), Call("read", <<>>)>>>>,
           <<<<N("b"), Op("ListHead", <<Const(T_int), Var(VAR_IN)>>)>>,
             <<VAR_IN, Op("ListTail", <<Var(VAR_IN)>>)>>>>,
           <<<<VAR_RET, Op("ArrayInit", <<Var(N("a")), Var(N("b"))>>)>>>> >>,
       <<Goto(2), Goto(3), End>>)

\* wrap: prints a, calls side, prints b, in one location
F_wrap ==
    Fn("wrap", <<>>, T_int, (N("z") :> T_int), 1,
       <<  <<<<VAR_OUT, Println(<<"a">>)>>,
             <<N("z"), Call("side", <<>>)>>,
             <<VAR_OUT, Println(<<"b">>)>>>>,
           <<<<VAR_RET, Var(N("z"))>>>> >>,
       <<Goto(2), End>>)

\* at: element i of [1, 2, 3]; put: [1, 2, 3] with 9 at position i, and the
\* source array read after the assignment in the same location
F_at ==
    Fn("at", <<<<N("i"), T_int>>>>, T_int,
       (N("i") :> T_int) @@ (N("arr") :> ArrayOf(T_int)), 1,
       <<  <<<<N("arr"), Op("ArrayInit", <<Lit(<<"1">>), Lit(<<"2">>), Lit(<<"3">>)>>)>>>>,
           <<<<VAR_RET, Op("[]", <<Var(N("arr")), Var(N("i"))>>)>>>> >>,
       <<Goto(2), End>>)
F_put ==
    Fn("put", <<<<N("i"), T_int>>>>, ArrayOf(T_int),
       (N("i") :> T_int) @@ (N("arr") :> ArrayOf(T_int)) @@ (N("b") :> ArrayOf(T_int))
           @@ (N("c") :> T_any), 1,
       <<  <<<<N("arr"), Op("ArrayInit", <<Lit(<<"1">>), Lit(<<"2">>), Lit(<<"3">>)>>)>>>>,
           <<<<N("b"), Op("ArrayAssign", <<Var(N("arr")), Var(N("i")), Lit(<<"9">>)>>)>>,
             <<N("c"), Var(N("arr"))>>>>,
           <<<<VAR_RET, Var(N("b"))>>>> >>,
       <<Goto(2), Goto(3), End>>)

\* sorter: sorts the array a it is given and returns it; keep: builds
\* a = [2, 1], gives it to sorter and returns a
F_sorter ==
    Fn("sorter", <<<<N("a"), ArrayOf(T_int)>>>>, ArrayOf(T_int),
       (N("a") :> ArrayOf(T_int)) @@ (N("u") :> T_any), 1,
       <<  <<<<N("u"), Op("sort", <<Var(N("a"))>>)>>>>,
           <<<<VAR_RET, Var(N("a"))>>>> >>,
       <<Goto(2), End>>)
F_keep ==
    Fn("keep", <<>>, ArrayOf(T_int),
       (N("a") :> ArrayOf(T_int)) @@ (N("b") :> ArrayOf(T_int)), 1,
       <<  <<<<N("a"), Op("ArrayInit", <<Lit(<<"2">>), Lit(<<"1">>)>>)>>>>,
           <<<<N("b"), Call("sorter", <<Var(N("a"))>>)>>>>,
           <<<<VAR_RET, Var(N("a"))>>>> >>,
       <<Goto(2), Goto(3), End>>)

\* more: returns hasNext(); sip and drain: consume one and two input
\* values, a location each, and then return hasNext(); callmore: calls more
ReadOne == <<<<N("x"), Op("ListHead", <<Const(T_int), Var(VAR_IN)>>)>>,
             <<VAR_IN, Op("ListTail", <<Var(VAR_IN)>>)>>>>
HasNext == <<<<VAR_RET, Op("hasNext", <<>>)>>>>
F_more ==
    Fn("more", <<>>, T_any, (N("x") :> T_int), 1, <<HasNext>>, <<End>>)
F_sip ==
    Fn("sip", <<>>, T_any, (N("x") :> T_int), 1,
       <<ReadOne, HasNext>>, <<Goto(2), End>>)
F_drain ==
    Fn("drain", <<>>, T_any, (N("x") :> T_int), 1,
       <<ReadOne, ReadOne, HasNext>>, <<Goto(2), Goto(3), End>>)
F_callmore ==
    Fn("callmore", <<>>, T_any, (N("x") :> T_int), 1,
       <<  <<<<VAR_RET, Call("more", <<>>)>>>> >>,
       <<End>>)

\* operator programs: the function named op returns a op b, the function
\* named u followed by op returns op a
F_binary(op) ==
    Fn(op, <<<<N("a"), T_any>>, <<N("b"), T_any>>>>, T_any,
       (N("a") :> T_any) @@ (N("b") :> T_any), 1,
       <<  <<<<VAR_RET, Op(op, <<Var(N("a")), Var(N("b"))>>)>>>> >>,
       <<End>>)
F_unary(op) ==
    Fn("u" \o op, <<<<N("a"), T_any>>>>, T_any, (N("a") :> T_any), 1,
       <<  <<<<VAR_RET, Op(op, <<Var(N("a"))>>)>>>> >>,
       <<End>>)
\* the operators execute_BinaryOp has a branch for (lines 114-171), and "!"
BinaryBranches == <<"&&", "||", "+", "-", "*", "/", "%", "==", "!=", "<", "<=",
                    ">", ">=", "^", "&", "|", "<<", ">>">>
UnaryBranches == <<"-", "+", "!">>
OpLibrary ==
    [i \in 1..Len(BinaryBranches) |-> F_binary(BinaryBranches[i])]
        \o <<F_binary("!")>>
        \o [i \in 1..Len(UnaryBranches) |-> F_unary(UnaryBranches[i])]
BinaryEntries == {OpLibrary[i].name : i \in 1..(Len(BinaryBranches) + 1)}
UnaryEntries == {"u" \o UnaryBranches[i] : i \in 1..Len(UnaryBranches)}

\* sortany: sorter with a parameter of a type that is no array type
F_sortany ==
    Fn("sortany", <<<<N("a"), <<"List">>>>>>, T_any,
       (N("a") :> <<"List">>) @@ (N("u") :> T_any), 1,
       <<  <<<<N("u"), Op("sort", <<Var(N("a"))>>)>>>>,
           <<<<VAR_RET, Var(N("a"))>>>> >>,
       <<Goto(2), End>>)

\* conversion programs, one per declared type t: loc 1 assigns the argument
\* a to x of type t, loc 2 assigns x to y of type t, loc 3 returns a as a
\* t, loc 4 follows when loc 3 has not ended the activation
F_conv(name, t) ==
    Fn(name, <<<<N("a"), T_any>>>>, t,
       (N("a") :> T_any) @@ (N("x") :> t) @@ (N("y") :> t), 1,
       <<  <<<<N("x"), Var(N("a"))>>>>,
           <<<<N("y"), Var(N("x"))>>>>,
           <<<<VAR_RET, Var(N("a"))>>>>,
           <<>> >>,
       <<Goto(2), Goto(3), Goto(4), End>>)
ConvLibrary ==
    <<F_conv("to_int", T_int), F_conv("to_char", T_char), F_conv("to_float", T_float),
      F_conv("to_any", T_any), F_conv("to_boolean", T_bool),
      F_conv("to_String", T_String), F_conv("to_ints", ArrayOf(T_int)),
      F_conv("to_chars", ArrayOf(T_char))>>
ConvEntries == {ConvLibrary[i].name : i \in 1..Len(ConvLibrary)}

\* lazy programs: loc 1 assigns r one expression over the parameter a whose
\* right operand or branches call side, print or divide by zero; loc 2
\* returns r
F_lazy(name, e) ==
    Fn(name, <<<<N("a"), T_any>>>>, T_any, (N("a") :> T_any) @@ (N("r") :> T_any), 1,
       <<  <<<<N("r"), e>>>>,
           <<<<VAR_RET, Var(N("r"))>>>> >>,
       <<Goto(2), End>>)
DivByZero == Op("/", <<Lit(<<"1">>), Lit(<<"0">>)>>)
LazyPrograms ==
    <<F_lazy("andcall", Op("&&", <<Var(N("a")), Call("side", <<>>)>>)),
      F_lazy("orcall", Op("||", <<Var(N("a")), Call("side", <<>>)>>)),
      F_lazy("andfault", Op("&&", <<Var(N("a")), DivByZero>>)),
      F_lazy("orfault", Op("||", <<Var(N("a")), DivByZero>>)),
      F_lazy("itecall", Op("ite", <<Var(N("a")), Call("side", <<>>), DivByZero>>)),
      F_lazy("itefault", Op("ite", <<Var(N("a")), DivByZero, Call("side", <<>>)>>)),
      F_lazy("iteprint", Op("ite", <<Var(N("a")), Println(<<"t">>), Println(<<"f">>)>>))>>
LazyEntries == {LazyPrograms[i].name : i \in 1..Len(LazyPrograms)}
LazyLibrary == LazyPrograms \o <<F_side>>

\* the programs run for what the activations of a run and the caller of
\* run share: memories, arrays, the input stream
FrameLibrary == <<F_keep, F_sorter, F_early, F_side, F_fact, F_read, F_readtwice,
                  F_mk, F_sortcall, F_more, F_sip, F_drain, F_callmore, F_sortany>>

TimedLibrary == <<F_spin, F_idle, F_callspin, F_side>>

Library == <<F_swap, F_side, F_early, F_sum, F_fact, F_id, F_pass, F_none,
             F_callnone, F_two, F_callone, F_fault, F_callfault,
             F_mk, F_sortcall, F_sortown, F_read, F_readtwice,
             F_wrap, F_at, F_put>>

\* Program: function name -> Function, of a list of functions
Program(fncs) ==
    [n \in {fncs[i].name : i \in 1..Len(fncs)} |->
        fncs[CHOOSE i \in 1..Len(fncs) : fncs[i].name = n]]

\* self.prog is a one-element sequence holding the Program, or None
NoProgram == <<>>

\* ------------------------------------------------------------------------
\* The engine (Interpreter): expression evaluation
\* ------------------------------------------------------------------------
\* Evaluation threads the memory and the engine instance `eng` (the fields
\* of self, with the wall clock `now`): an evaluation result is the value
\* or the exception raised, with the memory and engine it leaves.
\*
\* A nested call suspends the evaluation of the caller's step: the
\* evaluation ends with the signal "Call" (carried like an exception, but
\* none of Python's), the callee runs as an activation of its own, and the
\* caller's step is then evaluated again from its start with the results
\* of the calls it has completed in eng.replay, in the order it made them.
\* Evaluation is deterministic, so the second evaluation retraces the
\* first up to the call and goes on from the engine the callee left.
\* A Python list is an object: the places that hold one list see each
\* other's in-place changes. A place is a slot of the memory of the
\* activation at depth d, <<"mem", d, var>>, or a slot of the snapshot of
\* trace entry i, <<"snap", i, var>>; eng.alias is the set of the groups of
\* places that hold one list. ref is the place the value of an expression
\* lives at, NoRef for an object the evaluation made
NoRef == <<>>
MemPlace(eng, var) == <<"mem", eng.depth, var>>
SnapPlace(i, var) == <<"snap", i, var>>

R(v, mem, eng) ==
    [val |-> v, exc |-> "none", msg |-> "", mem |-> mem, eng |-> eng, ref |-> NoRef]
X(k, m, mem, eng) ==
    [val |-> UndefValue, exc |-> k, msg |-> m, mem |-> mem, eng |-> eng, ref |-> NoRef]
Lift(p, mem, eng) ==
    [val |-> p.val, exc |-> p.exc, msg |-> p.msg, mem |-> mem, eng |-> eng,
     ref |-> NoRef]
\* the list v, which is the object at place p
At(v, p, mem, eng) ==
    [val |-> v, exc |-> "none", msg |-> "", mem |-> mem, eng |-> eng,
     ref |-> IF v.t = "list" THEN p ELSE NoRef]

\* the places that hold the object at place p
GroupOf(alias, p) ==
    IF \E g \in alias : p \in g THEN CHOOSE g \in alias : p \in g ELSE {p}
\* place q is bound to another object
Forget(alias, q) == {h \in {g \ {q} : g \in alias} : Cardinality(h) >= 2}
\* place q is bound to the object at place p
Share(alias, p, q) ==
    IF p = q THEN alias
    ELSE (Forget(alias, q) \ {GroupOf(Forget(alias, q), p)})
            \cup {GroupOf(Forget(alias, q), p) \cup {q}}
\* whether convert(val, t) is the object val itself: a list that is not
\* rebuilt element by element (java_interpreter.py line 507)
SameObject(val, t) ==
    val.t = "list" /\ t \notin {T_int, T_float, T_char} /\ t[Len(t)] # "[]"
\* the memory dict of the activation becomes the snapshot of entry k
Snapshotted(alias, d, k) ==
    {{IF p[1] = "mem" /\ p[2] = d THEN SnapPlace(k, p[3]) ELSE p : p \in g} : g \in alias}

\* the exception classes the except clause of Interpreter.execute names
CaughtKinds == {"OverflowError", "ZeroDivisionError", "AttributeError",
                "TypeError", "IndexError", "RuntimeError", "ValueError", "KeyError"}
\* Python's built-in subclasses among the kinds the model raises
BaseOf(k) == IF k \in {"NotImplementedError", "RecursionError"} THEN "RuntimeError" ELSE k
IsCaught(k) == BaseOf(k) \in CaughtKinds

\* the methods execute_<name> of JavaInterpreter the model does not cover
UncoveredMethods == {"StrFormat", "ArrayCreate", "hasNextInt", "substring",
    "matches", "concat", "parseInt", "IntegertoString", "IntegervalueOf", "sum",
    "valueOf", "charAt", "equals", "isEmpty", "startsWith", "endsWith", "replace",
    "replaceAll", "replaceFirst", "indexOf", "contains", "isDigit", "isLetter",
    "isSpace", "toString", "ArraystoString", "Arraysequals", "copyOfRange",
    "copyOf", "clone", "floor", "ceil", "pow", "log10", "abs", "max", "min",
    "floorDiv", "signum", "length"}

\* Interpreter.is_output
RECURSIVE is_output(_)
is_output(a) ==
    \/ \E i \in 1..Len(a.args) : a.args[i].k = "Var" /\ a.args[i].name = VAR_OUT
    \/ \E i \in 1..Len(a.args) : a.args[i].k = "Op" /\ is_output(a.args[i])

RECURSIVE Execute(_, _, _)
RECURSIVE ExecList(_, _, _)
RECURSIVE RenderList(_, _, _, _)
RECURSIVE execute_Op(_, _, _)

\* [self.execute(x, mem) for x in es]
ExecList(es, mem, eng) ==
    IF es = <<>> THEN R(<<>>, mem, eng)
    ELSE LET h == Execute(es[1], mem, eng)
         IN  IF h.exc # "none" THEN h
             ELSE LET r == ExecList(Tail(es), h.mem, h.eng)
                  IN  IF r.exc # "none" THEN r
                      ELSE R(<<h.val>> \o r.val, r.mem, r.eng)

\* the texts unescape_chars(str(self.execute(x, mem))) of es, each passed
\* through the output filter when `filtered`, concatenated
RenderList(es, filtered, mem, eng) ==
    IF es = <<>> THEN R(<<>>, mem, eng)
    ELSE LET h == Execute(es[1], mem, eng)
             t == PyStr(h.val)
         IN  IF h.exc # "none" THEN h
             ELSE IF t.exc # "none" THEN Lift(t, h.mem, h.eng)
             ELSE LET u == unescape_chars(t.val)
                      w == IF filtered THEN FindallJoin(eng.filter_regex, u) ELSE u
                      r == RenderList(Tail(es), filtered, h.mem, h.eng)
                  IN  IF r.exc # "none" THEN r
                      ELSE R(w \o r.val, r.mem, r.eng)

\* Interpreter.execute_StrAppend
execute_StrAppend(a, mem, eng) ==
    IF Len(a.args) > 1 /\ is_output(a)
    THEN LET r == RenderList(Tail(a.args), TRUE, mem, eng)
         IN  IF r.exc # "none" THEN r
             ELSE R(StrV(r.val), r.mem,
                    IF r.eng.track
                    THEN [r.eng EXCEPT !.output = @ \o r.val] ELSE r.eng)
    ELSE LET r == RenderList(a.args, FALSE, mem, eng)
         IN  IF r.exc # "none" THEN r ELSE R(StrV(r.val), r.mem, r.eng)

\* Interpreter.execute_ite
execute_ite(ite, mem, eng) ==
    LET c == Execute(ite.args[1], mem, eng)
    IN  IF c.exc # "none" THEN c
        ELSE IF Truthy(c.val) THEN Execute(ite.args[2], c.mem, c.eng)
        ELSE Execute(ite.args[3], c.mem, c.eng)

\* Interpreter.execute_ListHead
execute_ListHead(l, mem, eng) ==
    LET r == Execute(l.args[2], mem, eng)
    IN  IF r.exc # "none" THEN r
        ELSE IF r.val.t = "list" /\ Len(r.val.v) > 0
        THEN Lift(convert(r.val.v[1], l.args[1].value), r.mem, r.eng)
        ELSE X("RuntimeErr", "ListHead", r.mem, r.eng)

\* JavaInterpreter.execute_hasNext: mem[VAR_IN] is a subscript, which raises
\* KeyError when the memory has no $in; an Undef $in is no list
execute_hasNext(op, mem, eng) ==
    IF VAR_IN \notin DOMAIN mem THEN X("KeyError", "", mem, eng)
    ELSE R(BoolV(mem[VAR_IN].t = "list" /\ Len(mem[VAR_IN].v) > 0), mem, eng)

\* Interpreter.execute_ListTail
execute_ListTail(l, mem, eng) ==
    LET r == Execute(l.args[1], mem, eng)
    IN  IF r.exc # "none" THEN r
        ELSE IF r.val.t = "list" /\ Len(r.val.v) > 0
        THEN R(ListV(Tail(r.val.v)), r.mem, r.eng)
        ELSE X("RuntimeErr", "ListTail", r.mem, r.eng)

\* JavaInterpreter.execute_UnaryOp
execute_UnaryOp(op, x, mem, eng) ==
    LET r == Execute(x, mem, eng)
        n == tonumeric(r.val)
    IN  IF r.exc # "none" THEN r
        ELSE IF n.exc # "none" THEN Lift(n, r.mem, r.eng)
        ELSE Lift(UnApply(op, n.val), r.mem, r.eng)

\* the operand conversion of execute_BinaryOp (lines 110-111, 125-126)
Operand(v) ==
    IF Truthy(v) /\ v.t # "list" /\ v.t # "str" THEN tonumeric(v) ELSE Ok(v)

\* a variant of execute_BinaryOp that evaluates both operands before it
\* looks at the operator
execute_BinaryOp_Eager(op, x, y, mem, eng) ==
    LET t == IF x.k = "Var" THEN x.type ELSE <<>>
        rx == Execute(x, mem, eng)
        nx == Operand(rx.val)
        ry == Execute(y, rx.mem, rx.eng)
    IN  IF rx.exc # "none" THEN rx
        ELSE IF nx.exc # "none" THEN Lift(nx, rx.mem, rx.eng)
        ELSE IF ry.exc # "none" THEN ry
        ELSE IF op = "||" /\ Truthy(nx.val) THEN R(nx.val, ry.mem, ry.eng)
        ELSE IF op = "&&" /\ ~Truthy(nx.val) THEN R(IntV(0), ry.mem, ry.eng)
        ELSE IF op \in {"&&", "||"} THEN Lift(tonumeric(ry.val), ry.mem, ry.eng)
        ELSE LET ny == Operand(ry.val) IN
             IF ny.exc # "none" THEN Lift(ny, ry.mem, ry.eng)
             ELSE LET g == togreater(nx.val, ny.val)
                  IN  Lift(BinApply(op, g[1], g[2], t), ry.mem, ry.eng)

\* JavaInterpreter.execute_BinaryOp
execute_BinaryOp(op, x, y, mem, eng) ==
    LET t == IF x.k = "Var" THEN x.type ELSE <<>>
        rx == Execute(x, mem, eng)
        nx == Operand(rx.val)
    IN  IF rx.exc # "none" THEN rx
        ELSE IF nx.exc # "none" THEN Lift(nx, rx.mem, rx.eng)
        ELSE IF op = "||" /\ Truthy(nx.val) THEN R(nx.val, rx.mem, rx.eng)
        ELSE IF op = "&&" /\ ~Truthy(nx.val) THEN R(IntV(0), rx.mem, rx.eng)
        ELSE LET ry == Execute(y, rx.mem, rx.eng) IN
             IF ry.exc # "none" THEN ry
             ELSE IF op \in {"&&", "||"} THEN Lift(tonumeric(ry.val), ry.mem, ry.eng)
             ELSE LET ny == Operand(ry.val) IN
                  IF ny.exc # "none" THEN Lift(ny, ry.mem, ry.eng)
                  ELSE LET g == togreater(nx.val, ny.val)
                       IN  Lift(BinApply(op, g[1], g[2], t), ry.mem, ry.eng)

\* JavaInterpreter.execute_cast
execute_cast(c, mem, eng) ==
    LET r == Execute(c.args[2], mem, eng)
    IN  IF r.exc # "none" THEN r
        ELSE Lift(convert(r.val, c.args[1].value), r.mem, r.eng)

\* JavaInterpreter.execute_ClassCreate
execute_ClassCreate(cc, mem, eng) ==
    IF cc.type # <<"Scanner">> THEN X("NotImplementedError", "", mem, eng)
    ELSE R(StrV(<<83, 99, 97, 110, 110, 101, 114>>), mem, eng)

\* JavaInterpreter.execute_ArrayInit
execute_ArrayInit(ai, mem, eng) ==
    LET r == ExecList(ai.args, mem, eng)
    IN  IF r.exc # "none" THEN r
        ELSE IF \E i \in 1..Len(r.val) : r.val[i].t = "list"
        THEN X("Unmodelled", "list of lists", r.mem, r.eng)
        ELSE R(ListV(r.val), r.mem, r.eng)

\* a variant of execute_ArrayIndex without the check of the lower bound:
\* a negative index counts from the end of the list, as Python's a[i] does
execute_ArrayIndex_Wrapping(ai, mem, eng) ==
    LET a == Execute(ai.args[1], mem, eng) IN
    IF a.exc # "none" THEN a
    ELSE IF a.val.t # "list" THEN X("RuntimeErr", "Expected list", a.mem, a.eng)
    ELSE LET i == Execute(ai.args[2], a.mem, a.eng)
             n == tonumeric(i.val)
         IN  IF i.exc # "none" THEN i
             ELSE IF n.exc # "none" THEN Lift(n, i.mem, i.eng)
             ELSE IF n.val.v >= Len(a.val.v) \/ n.val.v < 0 - Len(a.val.v)
             THEN X("RuntimeErr", "Array index out of bounds", i.mem, i.eng)
             ELSE IF n.val.v < 0
             THEN R(a.val.v[Len(a.val.v) + n.val.v + 1], i.mem, i.eng)
             ELSE R(a.val.v[n.val.v + 1], i.mem, i.eng)

\* JavaInterpreter.execute_ArrayIndex
execute_ArrayIndex(ai, mem, eng) ==
    LET a == Execute(ai.args[1], mem, eng) IN
    IF a.exc # "none" THEN a
    ELSE IF a.val.t # "list" THEN X("RuntimeErr", "Expected list", a.mem, a.eng)
    ELSE LET i == Execute(ai.args[2], a.mem, a.eng)
             n == tonumeric(i.val)
         IN  IF i.exc # "none" THEN i
             ELSE IF n.exc # "none" THEN Lift(n, i.mem, i.eng)
             ELSE IF n.val.v < 0 \/ n.val.v >= Len(a.val.v)
             THEN X("RuntimeErr", "Array index out of bounds", i.mem, i.eng)
             ELSE R(a.val.v[n.val.v + 1], i.mem, i.eng)

\* JavaInterpreter.execute_ArrayAssign
execute_ArrayAssign(aa, mem, eng) ==
    LET a == Execute(aa.args[1], mem, eng) IN
    IF a.exc # "none" THEN a
    ELSE IF a.val.t # "list" THEN X("RuntimeErr", "Expected list", a.mem, a.eng)
    ELSE LET i == Execute(aa.args[2], a.mem, a.eng)
             n == tonumeric(i.val)
         IN  IF i.exc # "none" THEN i
             ELSE IF n.exc # "none" THEN Lift(n, i.mem, i.eng)
             ELSE IF n.val.v < 0 \/ n.val.v >= Len(a.val.v)
             THEN X("RuntimeErr", "Array index out of bounds", i.mem, i.eng)
             ELSE LET v == Execute(aa.args[3], i.mem, i.eng)
                  IN  IF v.exc # "none" THEN v
                      ELSE R(ListV([a.val.v EXCEPT ![n.val.v + 1] = v.val]),
                             v.mem, v.eng)

\* ------------------------------------------------------------------------
\* The engine: function activations
\* ------------------------------------------------------------------------
\* a variant of WriteSlot without priming: the write lands in the slot the
\* reads of the step see
WriteSlot_Unprimed(var) == var

\* the slot a step writes the value computed for var to (line 150)
WriteSlot(var) == prime(var)

\* the type a value assigned to var is converted to (lines 151-152)
SlotType(fnc, var) == IF var = VAR_RET THEN fnc.rettype ELSE gettype(fnc, var)

\* a variant of EarlyExit in which the for loop is never left early
EarlyExit_Never(var, val) == FALSE

\* whether the for loop leaves the location's list after this pair (line 155)
EarlyExit(var, val) == var = VAR_RET /\ ~isundef(val)

RECURSIVE EvalExprs(_, _, _, _, _)

\* the engine once mem[slot] holds v, the value of r converted to type t
\* (line 152): the slot holds the object r evaluated to when convert
\* returned it as it is
Bound(r, v, slot, t) ==
    [r.eng EXCEPT !.alias = IF r.ref # NoRef /\ SameObject(v, t)
                            THEN Share(@, r.ref, MemPlace(r.eng, slot))
                            ELSE Forget(@, MemPlace(r.eng, slot))]

\* lines 150-156 for pair i, whose value val was converted to c: the write
\* to the primed slot, then the rest of the list unless the loop is left
Store(fnc, es, i, r, val, c) ==
    IF c.exc # "none" THEN Lift(c, r.mem, r.eng)
    ELSE IF EarlyExit(es[i][1], val)
    THEN R(UndefValue, Put(r.mem, WriteSlot(es[i][1]), c.val),
           Bound(r, c.val, WriteSlot(es[i][1]), SlotType(fnc, es[i][1])))
    ELSE EvalExprs(fnc, es, i + 1, Put(r.mem, WriteSlot(es[i][1]), c.val),
                   Bound(r, c.val, WriteSlot(es[i][1]), SlotType(fnc, es[i][1])))

\* the value of pair i after line 148: a condition is coerced to a bool
CondValue(var, v) == IF var = VAR_COND THEN BoolV(Truthy(v)) ELSE v

\* lines 147-156 for pair i, whose expression evaluated to r
Assign(fnc, es, i, r) ==
    IF r.exc # "none" THEN r
    ELSE Store(fnc, es, i, r, CondValue(es[i][1], r.val),
               convert(CondValue(es[i][1], r.val), SlotType(fnc, es[i][1])))

\* the for loop of execute_Function (lines 144-156), from pair i on
EvalExprs(fnc, es, i, mem, eng) ==
    IF i > Len(es) THEN R(UndefValue, mem, eng)
    ELSE Assign(fnc, es, i, Execute(es[i][2], mem, eng))

\* a variant of NextLoc that keys the only transition of a location by the
\* condition variable too
NextLoc_ByCond(fnc, loc, mem) ==
    IF numtrans(fnc, loc) = 0 THEN Ok(NoLoc)
    ELSE trans(fnc, loc, Get(mem, VAR_COND, None))

\* the choice of the next location (lines 167-176): the location, or NoLoc
\* when the activation is done
NextLoc(fnc, loc, mem) ==
    IF numtrans(fnc, loc) = 0 THEN Ok(NoLoc)
    ELSE IF numtrans(fnc, loc) = 1 THEN trans(fnc, loc, BoolV(TRUE))
    ELSE trans(fnc, loc, Get(mem, VAR_COND, None))

\* whether the activation ends on its return variable (line 164)
Returned(mem) == ~isundef(Get(mem, VAR_RET, UndefValue))

\* the entry execute_Function appends to the trace for a step (line 160)
TraceEntry(eng, snap) == [fnc |-> eng.fnc, loc |-> eng.loc, mem |-> snap]

\* the result of an iteration that leaves the while loop, and of one that
\* goes on
Ended(mem, eng) == R(UndefValue, mem, eng) @@ [done |-> TRUE]
Goes(mem, eng) == R(UndefValue, mem, eng) @@ [done |-> FALSE]

\* lines 163-176: the return check and the move to the next location
Select(fnc, newmem, eng1) ==
    LET nl == NextLoc(fnc, eng1.loc, newmem)
    IN  IF Returned(newmem) THEN Ended(newmem, eng1)
        ELSE IF nl.exc # "none" THEN Lift(nl, newmem, eng1) @@ [done |-> TRUE]
        ELSE IF nl.val = NoLoc THEN Ended(newmem, eng1)
        ELSE Goes(newmem, [eng1 EXCEPT !.loc = nl.val])

\* lines 159-161: the snapshot pm.mem is appended to the trace and the
\* activation goes on with pm.newmem
Record(fnc, eng0, pm) ==
    Select(fnc, pm.newmem,
           [eng0 EXCEPT !.trace = Append(@, TraceEntry(eng0, pm.mem)),
                        !.alias = Snapshotted(@, eng0.depth, Len(eng0.trace) + 1)])

\* lines 158-176, after the for loop ended as e
Commit(fnc, e) ==
    IF e.exc # "none" THEN e @@ [done |-> TRUE]
    ELSE Record(fnc, e.eng, procmem(e.mem))

\* one iteration of the while loop of execute_Function (lines 141-176);
\* done tells whether the loop is left
StepOnce(fnc, mem, eng) ==
    Commit(fnc, EvalExprs(fnc, exprs(fnc, eng.loc), 1, mem, eng))

\* the entry of execute_Function (lines 138-139)
EnterFunction(fnc, eng) == [eng EXCEPT !.fnc = fnc.name, !.loc = fnc.initloc]

\* Interpreter.getfnc: self.prog.getfnc(name)
getfnc(eng, name) ==
    IF eng.prog = NoProgram THEN Raise("AttributeError")
    ELSE IF name \in DOMAIN eng.prog[1] THEN Ok(eng.prog[1][name])
    ELSE Raise("KeyError")

\* the value bound to a parameter of a nested call (line 352): deepcopy(arg)
BindNested(arg, t) == Ok(arg)

\* the value run binds to a parameter (line 105)
BindRun(arg, t) == convert(arg, t)

RECURSIVE BindAll(_, _, _, _)
\* the loops over zip(fnc.params, args) of run (outermost) and of
\* execute_FuncCall
BindAll(params, args, mem, outermost) ==
    IF params = <<>> \/ args = <<>> THEN Ok(mem)
    ELSE LET b == IF outermost THEN BindRun(args[1], params[1][2])
                  ELSE BindNested(args[1], params[1][2])
         IN  IF b.exc # "none" THEN b
             ELSE BindAll(Tail(params), Tail(args), Put(mem, params[1][1], b.val),
                          outermost)

\* a variant of CalleeMem in which the callee starts with the memory of
\* the caller
CalleeMem_Inherited(mem) == mem

\* the memory a nested activation starts with (lines 342-345)
CalleeMem(mem) ==
    Put(Put(EmptyMem, VAR_IN, Get(mem, VAR_IN, UndefValue)),
        VAR_OUT, Get(mem, VAR_OUT, UndefValue))

\* the arity check of a nested call (line 347)
NestedArityOk(fnc, args) == Len(fnc.params) = Len(args)

\* a variant of CallResult that reads the unprimed return slot
CallResult_Unprimed(trace) == Get(trace[Len(trace)].mem, VAR_RET, UndefValue)

\* what the call yields (line 360): the primed return slot of the last entry
CallResult(trace) == Get(trace[Len(trace)].mem, prime(VAR_RET), UndefValue)

\* where the object the call yields lives (line 360): trace[-1][2].get
\* returns the value held by the last snapshot, not a copy
CallPlace(trace) ==
    IF prime(VAR_RET) \in DOMAIN trace[Len(trace)].mem
    THEN SnapPlace(Len(trace), prime(VAR_RET)) ELSE NoRef

\* Interpreter.execute_FuncCall up to the nested self.execute (lines
\* 334-356): the result of the call when it has run, else the signal "Call"
\* with the callee and the memory it starts with
execute_FuncCall(f, mem, eng) ==
    LET g == getfnc(eng, f.args[1].name[1]) IN
    IF g.exc = "KeyError" THEN X("RuntimeErr", "Unknown function", mem, eng)
    ELSE IF g.exc # "none" THEN Lift(g, mem, eng)
    ELSE LET fnc == g.val
             a == ExecList(Tail(f.args), mem, eng)
             nm == BindAll(fnc.params, a.val, CalleeMem(a.mem), FALSE)
         IN  IF a.exc # "none" THEN a
             ELSE IF ~NestedArityOk(fnc, a.val)
             THEN X("RuntimeErr", "Wrong number of args", a.mem, a.eng)
             ELSE IF nm.exc # "none" THEN Lift(nm, a.mem, a.eng)
             ELSE IF a.eng.replay # <<>>
             THEN At(a.eng.replay[1].val, CallPlace(a.eng.replay[1].eng.trace), a.mem,
                     [a.eng.replay[1].eng EXCEPT !.replay = Tail(a.eng.replay)])
             ELSE [val |-> [fnc |-> fnc, mem |-> nm.val], exc |-> "Call",
                   msg |-> "", mem |-> a.mem, eng |-> a.eng]

RECURSIVE Inserted(_, _)
\* the ascending list l with x put in
Inserted(x, l) ==
    IF l = <<>> THEN <<x>>
    ELSE IF AsInt(x) < AsInt(l[1]) THEN <<x>> \o l
    ELSE <<l[1]>> \o Inserted(x, Tail(l))

RECURSIVE Sorted(_)
\* list.sort() on a list of ints, which is stable
Sorted(l) == IF l = <<>> THEN <<>> ELSE Inserted(l[Len(l)], Sorted(SubSeq(l, 1, Len(l) - 1)))

\* the memory once the list at every place of g that is a slot of the
\* running activation's memory is v
MemWith(mem, g, d, v) ==
    [x \in DOMAIN mem |-> IF <<"mem", d, x>> \in g THEN v ELSE mem[x]]

\* the trace once the list at every place of g that is a slot of a
\* snapshot is v
TraceWith(trace, g, v) ==
    [i \in 1..Len(trace) |->
        [trace[i] EXCEPT !.mem = [x \in DOMAIN @ |->
            IF SnapPlace(i, x) \in g THEN v ELSE @[x]]]]

\* the objects of run's caller once the list at every place of g that is
\* one of them is v
GivenWith(given, g, v) ==
    [ins |-> IF <<"ins", 0>> \in g THEN v.v ELSE given.ins,
     args |-> [j \in 1..Len(given.args) |->
                  IF <<"arg", j>> \in g THEN v ELSE given.args[j]]]

\* arr.sort() (line 403): the list object is sorted where it is, in every
\* place that holds it, and the call yields None
SortedInPlace(r, g) ==
    IF \E p \in g : p[1] = "mem" /\ p[2] # r.eng.depth
    THEN X("Unmodelled", "sort of a caller's list", r.mem, r.eng)
    ELSE R(None, MemWith(r.mem, g, r.eng.depth, ListV(Sorted(r.val.v))),
           [r.eng EXCEPT !.trace = TraceWith(@, g, ListV(Sorted(r.val.v))),
                         !.given = GivenWith(@, g, ListV(Sorted(r.val.v)))])

\* JavaInterpreter.execute_sort
execute_sort(op, mem, eng) ==
    IF op.args = <<>> THEN X("IndexError", "", mem, eng)
    ELSE LET r == Execute(op.args[1], mem, eng) IN
         IF r.exc # "none" THEN r
         ELSE IF r.val.t # "list" THEN X("AttributeError", "", r.mem, r.eng)
         ELSE IF \E i \in 1..Len(r.val.v) : ~IsInt(r.val.v[i])
         THEN X("Unmodelled", "sort of non-integers", r.mem, r.eng)
         ELSE IF r.ref = NoRef THEN R(None, r.mem, r.eng)
         ELSE SortedInPlace(r, GroupOf(r.eng.alias, r.ref))

\* the method execute_<name> an Op is given to (line 212-213)
Method(op, mem, eng) ==
    CASE op.name = "ListHead" -> execute_ListHead(op, mem, eng)
      [] op.name = "ListTail" -> execute_ListTail(op, mem, eng)
      [] op.name = "hasNext" -> execute_hasNext(op, mem, eng)
      [] op.name = "StrAppend" -> execute_StrAppend(op, mem, eng)
      [] op.name = "ite" -> execute_ite(op, mem, eng)
      [] op.name = "FuncCall" -> execute_FuncCall(op, mem, eng)
      [] op.name = "cast" -> execute_cast(op, mem, eng)
      [] op.name = "ClassCreate" -> execute_ClassCreate(op, mem, eng)
      [] op.name = "ArrayInit" -> execute_ArrayInit(op, mem, eng)
      [] op.name = "ArrayAssign" -> execute_ArrayAssign(op, mem, eng)
      [] op.name = "sort" -> execute_sort(op, mem, eng)
      [] op.name \in UncoveredMethods -> X("Unmodelled", op.name, mem, eng)
      [] OTHER -> X("AttributeError", "", mem, eng)

\* Interpreter.execute_Op
execute_Op(op, mem, eng) ==
    CASE op.name \in UNARY_OPS /\ Len(op.args) # 1 /\ op.name \notin BINARY_OPS ->
            X("RuntimeError", "Got <>1 args", mem, eng)
      [] op.name \in UNARY_OPS /\ Len(op.args) = 1 ->
            execute_UnaryOp(op.name, op.args[1], mem, eng)
      [] op.name \in BINARY_OPS /\ Len(op.args) # 2 ->
            X("RuntimeError", "Got <>2 args", mem, eng)
      [] op.name \in BINARY_OPS ->
            execute_BinaryOp(op.name, op.args[1], op.args[2], mem, eng)
      [] op.name = "[]" -> execute_ArrayIndex(op, mem, eng)
      [] OTHER -> Method(op, mem, eng)

\* a variant of TimedOut whose comparison is not strict
TimedOut_AtBudget(eng) ==
    eng.timeout # 0 /\ eng.starttime # 0 /\ eng.now - eng.starttime >= eng.timeout

\* the timeout poll of Interpreter.execute (lines 121-122); timeout 0 is
\* "no budget"
TimedOut(eng) ==
    eng.timeout # 0 /\ eng.starttime # 0 /\ eng.now - eng.starttime > eng.timeout

\* the except clause of Interpreter.execute (lines 132-135)
Normalize(r) ==
    IF IsCaught(r.exc)
    THEN [r EXCEPT !.exc = "RuntimeErr", !.msg = "Exception on execution"]
    ELSE r

\* the wall clock moves by eng.tick between two polls
Tick(eng) == [eng EXCEPT !.now = IF @ + eng.tick > MaxClock THEN @ ELSE @ + eng.tick]

\* Interpreter.execute_Var: the object the memory holds for the variable
execute_Var(v, mem, eng) ==
    IF tostr(v) \in DOMAIN mem
    THEN At(mem[tostr(v)], MemPlace(eng, tostr(v)), mem, eng)
    ELSE R(UndefValue, mem, eng)

\* Interpreter.execute, of an expression
Execute(obj, mem, eng) ==
    LET e == Tick(eng) IN
    IF TimedOut(e) THEN X("RuntimeErr", "Timeout", mem, e)
    ELSE Normalize(
        CASE obj.k = "Var" -> execute_Var(obj, mem, e)
          [] obj.k = "Const" -> Lift(execute_Const(obj), mem, e)
          [] obj.k = "Op" -> execute_Op(obj, mem, e))

\* ------------------------------------------------------------------------
\* The state machine: one engine instance, run on test cases
\* ------------------------------------------------------------------------
VARIABLES
    eng,      \* the engine instance (the fields of self) and the wall clock
    pc,       \* "idle", "running" (inside run), "returned", "raised"
    call,     \* the arguments of the run call in progress or last made
    stack,    \* the activations in progress, the outermost first
    result,   \* what the last run call returned or raised
    runs,     \* run calls made so far
    other,    \* a second caller of the engine while it is not executing:
              \* its pc, call, stack and result
    harness   \* the call of Filtering.filter that drives the engine: its
              \* arguments, its locals and its position

vars == <<eng, pc, call, stack, result, runs, other, harness>>

\* Interpreter.__init__ with its defaults: no timeout, entryfnc 'main',
\* filter_regex '.*', track
NewEngine ==
    [timeout |-> 0, starttime |-> 0, entryfnc |-> "main", filter_regex |-> ".*",
     fnc |-> "None", loc |-> NoLoc, trace |-> <<>>, prog |-> NoProgram,
     track |-> TRUE, output |-> <<>>, retval |-> None,
     now |-> 1, tick |-> 0, replay |-> <<>>, alias |-> {}, depth |-> 0,
     given |-> [ins |-> <<>>, args |-> <<>>]]

\* An activation: its Function, its memory and the engine at the start of
\* the step it is in, the results of the calls that step has completed, and
\* the oldfnc and oldloc execute_FuncCall saved for the call in progress
Frame(fnc, m, e) ==
    [fnc |-> fnc, mem |-> m, start |-> e, memo |-> <<>>,
     oldfnc |-> "None", oldloc |-> NoLoc]

NoCall == [entryfnc |-> "", ins |-> <<>>, args |-> <<>>]
NoResult == [kind |-> "none", exc |-> "none", msg |-> "", trace |-> <<>>]
\* no call of Filtering.filter
NoHarness == [pc |-> "idle"]
\* a caller that has not called run
Waiting == [pc |-> "idle", call |-> NoCall, stack |-> <<>>, result |-> NoResult]
Raised(k, m) == [kind |-> "raise", exc |-> k, msg |-> m, trace |-> <<>>]
Returns(tr) == [kind |-> "return", exc |-> "none", msg |-> "", trace |-> tr]

I(n) == IntV(n)
A_a == StrV(<<97>>)
A_ab == StrV(<<97, 98>>)
\* the argument lists run is called with, by entry function
ArgsFor(entryfnc) ==
    CASE entryfnc = "swap" ->
            {<<I(1), I(2)>>, <<I(2), I(1)>>, <<>>, <<I(1)>>, <<I(1), I(2), I(3)>>,
             <<BoolV(TRUE), A_a>>, <<A_ab, I(1)>>}
      [] entryfnc = "side" -> {<<>>, <<I(1)>>}
      [] entryfnc = "early" -> {<<I(0)>>, <<I(2)>>, <<>>}
      [] entryfnc = "sum" -> {<<I(n)>> : n \in 0..4}
      [] entryfnc = "fact" -> {<<I(n)>> : n \in 0..3} \cup {<<BoolV(TRUE)>>}
      [] entryfnc \in {"id", "pass"} ->
            {<<I(2)>>, <<BoolV(TRUE)>>, <<A_a>>, <<A_ab>>, <<>>, <<None>>}
      [] entryfnc = "two" -> {<<I(1), I(2)>>, <<>>, <<I(1)>>}
      [] entryfnc \in {"at", "put"} -> {<<I(i)>> : i \in (-1)..3}
      [] entryfnc \in {"sorter", "sortany"} -> {<<>>, <<ListV(<<I(2), I(1)>>)>>}
      [] entryfnc \in BinaryEntries ->
            {<<I(1), I(2)>>, <<I(2), I(0)>>, <<I(0), I(3)>>, <<I(2), I(2)>>,
             <<BoolV(TRUE), BoolV(FALSE)>>, <<BoolV(TRUE), I(1)>>}
      [] entryfnc \in UnaryEntries -> {<<I(0)>>, <<I(2)>>, <<BoolV(TRUE)>>, <<BoolV(FALSE)>>}
      [] entryfnc = "to_float" -> {<<>>, <<None>>, <<I(2)>>, <<BoolV(TRUE)>>}
      [] entryfnc \in ConvEntries ->
            {<<>>, <<None>>, <<I(0)>>, <<I(2)>>, <<I(97)>>, <<I(-1)>>, <<BoolV(TRUE)>>,
             <<BoolV(FALSE)>>, <<A_a>>, <<A_ab>>, <<ListV(<<I(2), I(1)>>)>>}
      [] entryfnc \in LazyEntries ->
            {<<I(0)>>, <<I(2)>>, <<BoolV(TRUE)>>, <<BoolV(FALSE)>>, <<None>>, <<A_a>>, <<>>}
      [] entryfnc \in {"fault", "callfault"} -> {<<I(k)>> : k \in 0..(NumFaults - 1)}
      [] OTHER -> {<<>>}
\* the input streams
InsLists == {<<>>, <<I(5), I(6)>>}
\* the test cases on a program: entry function ("" for "not given", and a
\* name the program does not have), arguments, input stream
TestsOn(prog) ==
    UNION {[prog : {prog}, entryfnc : {e}, args : ArgsFor(e), ins : InsLists] :
              e \in DOMAIN prog \cup {"", "nosuch"}}
Tests == TestsOn(Program(Library))

\* the arity check of run (lines 99-103): whether it raises
RunArityFails(fnc, args) == args # <<>> /\ Len(args) # Len(fnc.params)

\* the memory run builds before binding the arguments (lines 78-96)
InitMem(fnc, ins) ==
    [v \in {VAR_OUT, VAR_RET} \cup (IF ins # <<>> THEN {VAR_IN} ELSE {})
            \cup DOMAIN fnc.types |->
        CASE v = VAR_RET -> UndefValue
          [] v = VAR_OUT -> StrV(<<>>)
          [] v = VAR_IN -> ListV(ins)
          [] OTHER -> UndefValue]

\* a variant of RetvalOf that reads the unprimed return slot
RetvalOf_Unprimed(trace) == Get(trace[Len(trace)].mem, VAR_RET, None)

\* the return-value projection of run (line 112)
RetvalOf(trace) == Get(trace[Len(trace)].mem, <<"$ret", 1>>, None)

Init ==
    /\ eng = NewEngine
    /\ pc = "idle"
    /\ call = NoCall
    /\ stack = <<>>
    /\ result = NoResult
    /\ runs = 0
    /\ other = Waiting
    /\ harness = NoHarness

\* a variant of Abort that clears the trace and the output of the engine
\* when run raises
Abort_Cleared(e, k, m) ==
    /\ eng' = [e EXCEPT !.trace = <<>>, !.output = <<>>]
    /\ pc' = "raised"
    /\ stack' = <<>>
    /\ result' = Raised(k, m)

\* run raises: the call stack is unwound; nothing of run follows the raise,
\* so the fields of the engine stay as the aborted step left them
Abort(e, k, m) ==
    /\ eng' = e
    /\ pc' = "raised"
    /\ stack' = <<>>
    /\ result' = Raised(k, m)

\* the engine in the activation of fnc entered under the activations
\* `frames`
Activated(frames, fnc, e) == [EnterFunction(fnc, e) EXCEPT !.depth = Len(frames) + 1]

\* an activation of fnc is entered with memory m (lines 138-139)
Begin(frames, fnc, m, e) ==
    IF TimedOut(e) THEN Abort(e, "RuntimeErr", "Timeout")
    ELSE /\ eng' = Activated(frames, fnc, e)
         /\ pc' = "running"
         /\ stack' = Append(frames, Frame(fnc, m, Activated(frames, fnc, e)))
         /\ result' = NoResult

\* run from the binding of the arguments on (lines 104-109): b is the
\* memory with the parameters bound, or the exception convert raised
Launch(fnc, e1, b) ==
    IF b.exc # "none" THEN Abort(e1, b.exc, b.msg)
    ELSE Begin(<<>>, fnc, b.val, Tick([e1 EXCEPT !.starttime = e1.now]))

\* the engine with the objects the caller of run passed as ins and args:
\* the input sequence at the place <<"ins", 0>>, argument j at <<"arg", j>>
Given(e, ins, args) == [e EXCEPT !.given = [ins |-> ins, args |-> args]]

\* the engine once the arguments are bound (line 105): a parameter holds
\* the caller's object when convert returned the argument as it is; $in
\* holds a new list (line 86: list(ins))
Handed(e, fnc, args) ==
    [e EXCEPT !.trace = <<>>,
              !.alias = {{<<"arg", j>>, <<"mem", 1, fnc.params[j][1]>>} :
                            j \in {i \in 1..Len(args) :
                                      SameObject(args[i], fnc.params[i][2])}}]

\* run from the lookup of the entry function on (lines 72-109)
Lookup(e0, g, ins, args) ==
    IF g.exc # "none" THEN Abort(Given(e0, ins, args), "RuntimeErr", "Unknown function")
    ELSE IF RunArityFails(g.val, args)
    THEN Abort([Given(e0, ins, args) EXCEPT !.trace = <<>>], "RuntimeErr",
               "Wrong number of args")
    ELSE Launch(g.val, Handed(Given(e0, ins, args), g.val, args),
                BindAll(g.val.params, args, InitMem(g.val, ins), TRUE))

\* a variant of Reset in which run does not empty the output
Reset_KeepOutput(e, prog) == [e EXCEPT !.prog = <<prog>>, !.retval = None, !.alias = {}]

\* the engine after lines 64-68 of run
Reset(e, prog) ==
    [e EXCEPT !.prog = <<prog>>, !.output = <<>>, !.retval = None, !.alias = {}]

\* Interpreter.run up to the loop of the outermost activation (lines 60-109
\* and 118-139)
Run(prog, ins, args, entryfnc) ==
    /\ pc \in {"idle", "returned", "raised"}
    /\ runs < MaxRuns
    /\ runs' = runs + 1
    /\ other' = other
    /\ harness' = harness
    /\ call' = [entryfnc |-> entryfnc, ins |-> ins, args |-> args]
    /\ Lookup(Reset(eng, prog),
              getfnc(Reset(eng, prog), IF entryfnc # "" THEN entryfnc ELSE eng.entryfnc),
              ins, args)

\* the activation a step belongs to
Top == stack[Len(stack)]

\* the caller with the oldfnc and oldloc of lines 354-355 saved
Suspended(top, e) == [top EXCEPT !.oldfnc = e.fnc, !.oldloc = e.loc]

\* the engine once the memory of the callee holds the $in object of the
\* caller's memory mem (line 343: mem.get(VAR_IN, ...) is not copied)
Lent(e, mem) ==
    IF VAR_IN \in DOMAIN mem /\ mem[VAR_IN].t = "list"
    THEN [e EXCEPT !.alias = Share(@, MemPlace(e, VAR_IN), <<"mem", e.depth + 1, VAR_IN>>)]
    ELSE e

\* the nested self.execute(fnc, newmem) of execute_FuncCall (lines 354-356,
\* 118-139): the caller `top` is suspended in the step evaluated to s
Enter(top, s) ==
    IF Len(stack) >= MaxDepth THEN Abort(s.eng, "Unmodelled", "depth")
    ELSE Begin([stack EXCEPT ![Len(stack)] = Suspended(top, s.eng)],
               s.val.fnc, s.val.mem, Tick(Lent(s.eng, s.mem)))

\* a variant of Restore that puts back the function name only
Restore_FunctionOnly(e, caller) == [e EXCEPT !.fnc = caller.oldfnc]

\* a variant of Restore in which the steps of the nested activation are
\* dropped from the trace when the caller is resumed
Restore_OwnTrace(e, caller) ==
    [e EXCEPT !.fnc = caller.oldfnc, !.loc = caller.oldloc,
              !.trace = caller.start.trace]

\* a variant of Restore in which the output goes back to what it was when
\* the caller's step began
Restore_OwnOutput(e, caller) ==
    [e EXCEPT !.fnc = caller.oldfnc, !.loc = caller.oldloc,
              !.output = caller.start.output]

\* the engine after a nested call (lines 357-358)
Restore(e, caller) == [e EXCEPT !.fnc = caller.oldfnc, !.loc = caller.oldloc]

\* the engine back in the activation of the caller
Back(e, caller) == [Restore(e, caller) EXCEPT !.depth = caller.start.depth]

\* the caller with the result of the call it was suspended in
Resumed(caller, v, e) == [caller EXCEPT !.memo = Append(@, [val |-> v, eng |-> e])]

\* the return of a nested activation to execute_FuncCall (lines 357-360)
Leave(caller, s) ==
    /\ eng' = Back(s.eng, caller)
    /\ pc' = "running"
    /\ stack' = [SubSeq(stack, 1, Len(stack) - 1) EXCEPT ![Len(stack) - 1] =
                    Resumed(caller, CallResult(s.eng.trace), Back(s.eng, caller))]
    /\ result' = NoResult

\* the end of run (lines 111-116)
Finish(s) ==
    /\ eng' = [s.eng EXCEPT !.retval = RetvalOf(s.eng.trace), !.prog = NoProgram]
    /\ pc' = "returned"
    /\ stack' = <<>>
    /\ result' = Returns(s.eng.trace)

\* the activation goes to its next step
Continue(top, s) ==
    /\ eng' = s.eng
    /\ pc' = "running"
    /\ stack' = [stack EXCEPT ![Len(stack)] = Frame(top.fnc, s.mem, s.eng)]
    /\ result' = NoResult

\* what becomes of the innermost activation `top` when the current
\* iteration of its loop, through the except clause of execute, ends as s:
\* it is suspended at a nested call, or run raises, or the step is committed
\* and the activation ends or goes on
Outcome(top, s) ==
    IF s.exc = "Call" THEN Enter(top, s)
    ELSE IF s.exc # "none" THEN Abort(s.eng, s.exc, s.msg)
    ELSE IF s.done /\ Len(stack) > 1 THEN Leave(stack[Len(stack) - 1], s)
    ELSE IF s.done THEN Finish(s)
    ELSE Continue(top, s)

\* the iteration the innermost activation is in, evaluated from its start
\* with the results of the calls it has completed
Iteration(top) ==
    Normalize(StepOnce(top.fnc, top.mem, [top.start EXCEPT !.replay = top.memo]))

\* The engine goes on with the innermost activation: one iteration of the
\* loop of execute_Function
Step ==
    /\ pc = "running"
    /\ Outcome(Top, Iteration(Top))
    /\ UNCHANGED <<call, runs, other, harness>>

Next ==
    \/ \E t \in Tests : Run(t.prog, t.ins, t.args, t.entryfnc)
    \/ Step

Spec == Init /\ [][Next]_vars

\* ------------------------------------------------------------------------
\* The engine under a timeout budget, with the wall clock passing
\* ------------------------------------------------------------------------
\* Interpreter(timeout=t): no budget, or the budget T
Timeouts == {0, Budget}

TimedInit ==
    /\ \E t \in Timeouts : eng = [NewEngine EXCEPT !.timeout = t]
    /\ pc = "idle"
    /\ call = NoCall
    /\ stack = <<>>
    /\ result = NoResult
    /\ runs = 0
    /\ other = Waiting
    /\ harness = NoHarness

TimedTests == TestsOn(Program(TimedLibrary))

\* the activation `top` with the clock its next evaluation reads: the one of
\* the engine its step starts with or, after a nested call of the step, of
\* the engine the call left
Later(top) ==
    IF top.memo = <<>> THEN [top EXCEPT !.start.now = @ + 1]
    ELSE [top EXCEPT !.memo[Len(top.memo)].eng.now = @ + 1]

\* time passes: time.time() (lines 107, 122) returns a later value from
\* now on
Advance ==
    /\ eng.now < MaxClock
    /\ eng' = [eng EXCEPT !.now = @ + 1]
    /\ stack' = IF stack = <<>> THEN stack
                ELSE [stack EXCEPT ![Len(stack)] = Later(Top)]
    /\ UNCHANGED <<pc, call, result, runs, other, harness>>

\* a step of a run that is followed for MaxTrace steps
TimedStep == Len(eng.trace) < MaxTrace /\ Step

TimedNext ==
    \/ \E t \in TimedTests : Run(t.prog, t.ins, t.args, t.entryfnc)
    \/ TimedStep
    \/ Advance

TimedSpec == TimedInit /\ [][TimedNext]_vars

\* ------------------------------------------------------------------------
\* Two callers of one engine whose runs overlap: the fields of self are the
\* one engine's, the locals of run and of execute_Function each caller's
\* ------------------------------------------------------------------------
\* functions of one location that call nothing: the location one run leaves
\* in the engine is a location of the function of the other
OverlapEntries == {"side", "none", "two", "mk"}
OverlapTests == {t \in Tests : t.entryfnc \in OverlapEntries}

\* the engine e as the activation whose engine was `mine` finds it
Found(e, mine) == [e EXCEPT !.depth = mine.depth, !.replay = mine.replay]

\* the activation `top` goes on with the fields of self as they are now
Facing(top, e) ==
    IF top.memo = <<>> THEN [top EXCEPT !.start = Found(e, @)]
    ELSE [top EXCEPT !.memo[Len(top.memo)].eng = Found(e, @)]

\* the thread of the other caller is scheduled: it goes on where it was,
\* with its own locals, on the engine as the descheduled caller leaves it
Switch ==
    /\ other.pc = "running" \/ (other.pc = "idle" /\ runs < MaxRuns)
    /\ pc' = other.pc
    /\ call' = other.call
    /\ result' = other.result
    /\ stack' = IF other.stack = <<>> THEN <<>>
                ELSE [other.stack EXCEPT ![Len(other.stack)] = Facing(@, eng)]
    /\ other' = [pc |-> pc, call |-> call, stack |-> stack, result |-> result]
    /\ UNCHANGED <<eng, runs, harness>>

OverlapNext ==
    \/ \E t \in OverlapTests : Run(t.prog, t.ins, t.args, t.entryfnc)
    \/ Step
    \/ Switch

OverlapSpec == Init /\ [][OverlapNext]_vars

\* ------------------------------------------------------------------------
\* The harness (Filtering.filter): candidate programs run on a test suite
\* ------------------------------------------------------------------------
\* candidate programs with the entry function f(n): good prints ok and
\* returns n + 1; quiet returns n + 1 and prints nothing; two prints ok and
\* returns 2; div prints ok and returns 6 / n + n - 2, which is n + 1 for
\* n = 2 and a division by zero for n = 0; odd is good but for n = 0, where
\* it evaluates a literal that is no constant of the language
Candidate(body) ==
    Program(<<Fn("f", <<<<N("n"), T_int>>>>, T_int, (N("n") :> T_int), 1, body,
                 [l \in 1..Len(body) |-> IF l < Len(body) THEN Goto(l + 1) ELSE End])>>)
SayOk == <<<<VAR_OUT, Println(<<"o", "k">>)>>>>
Succ == Op("+", <<Var(N("n")), Lit(<<"1">>)>>)
P_good == Candidate(<<SayOk, <<<<VAR_RET, Succ>>>>>>)
P_quiet == Candidate(<< <<<<VAR_RET, Succ>>>> >>)
P_two == Candidate(<<SayOk, <<<<VAR_RET, Lit(<<"2">>)>>>>>>)
P_div ==
    Candidate(<<SayOk,
                <<<<VAR_RET, Op("+", <<Op("/", <<Lit(<<"6">>), Var(N("n"))>>),
                                      Op("-", <<Var(N("n")), Lit(<<"2">>)>>)>>)>>>>>>)
P_odd ==
    Candidate(<<SayOk,
                <<<<VAR_RET, Op("ite", <<Op("==", <<Var(N("n")), Lit(<<"0">>)>>),
                                        Lit(<<"a", "b", "c">>), Succ>>)>>>>>>)
\* the candidates by name: filter is handed the Program objects, the model
\* keeps their names
Candidates ==
    [good |-> P_good, quiet |-> P_quiet, two |-> P_two, div |-> P_div, odd |-> P_odd]

\* a test: the input stream and the arguments of the run, the text expected
\* in the output and the return value expected, each of them or None
Test(args, out, ret) == [ins |-> <<>>, args |-> args, out |-> out, ret |-> ret]
SuiteTests ==
    <<Test(<<I(2)>>, StrV(<<111, 107>>), I(3)),
      Test(<<I(0)>>, StrV(<<107>>), I(1)),
      Test(<<I(2)>>, None, I(3)),
      Test(<<I(2)>>, StrV(<<111>>), None)>>

\* the sequences of up to n different elements of a set
Listings(set, n) ==
    UNION {{s \in [1..k -> set] : \A i, j \in 1..k : s[i] = s[j] => i = j} : k \in 0..n}

\* the lists of programs and the suites filter is called with: names of
\* candidates, positions in SuiteTests
MaxProgs == 2
MaxTests == 2
ProgLists == Listings(DOMAIN Candidates, MaxProgs)
Suites == Listings(DOMAIN SuiteTests, MaxTests)

\* the timeout of the engine filter builds (line 5)
DefaultTimeout == 30

\* `sub in s` for two texts
Contains(sub, s) ==
    \E i \in 0..(Len(s) - Len(sub)) : SubSeq(s, i + 1, i + Len(sub)) = sub

\* lines 24-32 of filter, after a run that returned: the test is passed or
\* failed, or the statement of line 25 raises: "EXPECTED: " + None is a
\* TypeError
Judged(e, test) ==
    IF test.out = None THEN "TypeError"
    ELSE IF ~Contains(test.out.v, e.output) THEN "fail"
    ELSE IF test.ret # None /\ ~PyEq(e.retval, test.ret) THEN "fail"
    ELSE "pass"

\* lines 15-21 of filter, after a run that raised: only RuntimeErr is
\* caught
Caught(res) == IF res.exc = "RuntimeErr" THEN "fail" ELSE res.exc

RECURSIVE Settle(_)
\* the loops of filter (lines 10-37) from the position of h up to the next
\* call of run or the return: a program whose tests are done is appended
\* when it is still correct
Settle(h) ==
    IF h.p > Len(h.progs) THEN [h EXCEPT !.pc = "done"]
    ELSE IF ~h.correct
    THEN Settle([h EXCEPT !.p = @ + 1, !.t = 1, !.correct = TRUE])
    ELSE IF h.t > Len(h.tests)
    THEN Settle([h EXCEPT !.correct_progs = Append(@, h.p), !.p = @ + 1, !.t = 1])
    ELSE [h EXCEPT !.pc = "loop"]

\* a variant of After in which a failed test does not end the tests of the
\* program, nor mark it
After_FailureIgnored(h, verdict) ==
    IF verdict \in {"pass", "fail"} THEN Settle([h EXCEPT !.t = @ + 1])
    ELSE [h EXCEPT !.pc = "aborted", !.exc = verdict]

\* filter after the test at its position was decided: on to the next test,
\* out of the loop of the tests (break), or out of filter with the
\* exception that nothing catches
After(h, verdict) ==
    IF verdict = "pass" THEN Settle([h EXCEPT !.t = @ + 1])
    ELSE IF verdict = "fail" THEN Settle([h EXCEPT !.correct = FALSE])
    ELSE [h EXCEPT !.pc = "aborted", !.exc = verdict]

\* Filtering.filter up to its first call of run (lines 6-12): the engine is
\* built, with track on
Filter(progs, tests, entryfnc) ==
    /\ harness.pc = "idle"
    /\ eng' = [NewEngine EXCEPT !.entryfnc = entryfnc, !.timeout = DefaultTimeout]
    /\ harness' = Settle([pc |-> "loop", progs |-> progs, tests |-> tests,
                          entryfnc |-> entryfnc, p |-> 1, t |-> 1, correct |-> TRUE,
                          correct_progs |-> <<>>, exc |-> "none", ran |-> <<>>])
    /\ UNCHANGED <<pc, call, stack, result, runs, other>>

\* the program and the test at the position of filter
Prog == Candidates[harness.progs[harness.p]]
TestAt == SuiteTests[harness.tests[harness.t]]

\* line 16: I.run(prog, ins=test['ins'], args=test['args'], entryfnc)
FilterRun ==
    /\ harness.pc = "loop"
    /\ call' = [entryfnc |-> harness.entryfnc, ins |-> TestAt.ins, args |-> TestAt.args]
    /\ Lookup(Reset(eng, Prog),
              getfnc(Reset(eng, Prog),
                     IF harness.entryfnc # "" THEN harness.entryfnc ELSE eng.entryfnc),
              TestAt.ins, TestAt.args)
    /\ harness' = [harness EXCEPT !.pc = "run",
                                  !.ran = Append(@, <<harness.p, harness.t>>)]
    /\ UNCHANGED <<runs, other>>

\* lines 17-37: the run has returned or raised
FilterCheck ==
    /\ harness.pc = "run"
    /\ pc \in {"returned", "raised"}
    /\ harness' = After([harness EXCEPT !.pc = "loop"],
                        IF pc = "raised" THEN Caught(result) ELSE Judged(eng, TestAt))
    /\ UNCHANGED <<eng, pc, call, stack, result, runs, other>>

FilterNext ==
    \/ \E progs \in ProgLists, tests \in Suites : Filter(progs, tests, "f")
    \/ FilterRun
    \/ Step
    \/ FilterCheck

FilterSpec == Init /\ [][FilterNext]_vars

\* ------------------------------------------------------------------------
\* The engine run on the lazy programs
\* ------------------------------------------------------------------------
LazyTests == TestsOn(Program(LazyLibrary))

LazyNext ==
    \/ \E t \in LazyTests : Run(t.prog, t.ins, t.args, t.entryfnc)
    \/ Step

LazySpec == Init /\ [][LazyNext]_vars

\* ------------------------------------------------------------------------
\* The engine run on the programs of FrameLibrary
\* ------------------------------------------------------------------------
FrameTests == TestsOn(Program(FrameLibrary))

FrameNext ==
    \/ \E t \in FrameTests : Run(t.prog, t.ins, t.args, t.entryfnc)
    \/ Step

FrameSpec == Init /\ [][FrameNext]_vars

\* ------------------------------------------------------------------------
\* The engine run on the operator programs
\* ------------------------------------------------------------------------
OpTests == TestsOn(Program(OpLibrary))

OpNext ==
    \/ \E t \in OpTests : Run(t.prog, t.ins, t.args, t.entryfnc)
    \/ Step

OpSpec == Init /\ [][OpNext]_vars

\* ------------------------------------------------------------------------
\* The engine run on the conversion programs
\* ------------------------------------------------------------------------
ConvTests == TestsOn(Program(ConvLibrary))

ConvNext ==
    \/ \E t \in ConvTests : Run(t.prog, t.ins, t.args, t.entryfnc)
    \/ Step

ConvSpec == Init /\ [][ConvNext]_vars

\* the evaluations the model does not cover are never reached
ModelCovers == result.exc # "Unmodelled"

\* ------------------------------------------------------------------------
\* Properties
\* ------------------------------------------------------------------------
\* the last entry of a trace
Last(tr) == tr[Len(tr)]

\* a transition of Step that commits a step of the innermost activation
\* (the one evaluation that appends its entry to the trace)
Commits == pc = "running" /\ Len(eng'.trace) = Len(eng.trace) + 1

\* the pairs (h, j) of a location's list where pair j reads through an
\* unprimed Var the variable pair h < j writes
StaleReads(es) ==
    {p \in (1..Len(es)) \X (1..Len(es)) :
        /\ p[1] < p[2]
        /\ es[p[2]][2].k = "Var" /\ ~es[p[2]][2].primed
        /\ es[p[2]][2].name = es[p[1]][1]}

\* C1: simultaneous assignment.  In every committed step the unprimed slots
\* of the recorded snapshot are the memory the step started with, and a pair
\* that reads, through an unprimed Var, a variable written earlier in the
\* same list is given the value the variable had before the step.
C1_SimultaneousAssignment ==
    [][Commits =>
        LET m == Top.mem
            snap == Last(eng'.trace).mem
            fnc == Top.fnc
            es == exprs(fnc, eng.loc)
        IN  /\ \A v \in DOMAIN m : ~isprimed(v) /\ v \in DOMAIN snap /\ snap[v] = m[v]
            /\ \A p \in StaleReads(es) :
                  prime(es[p[2]][1]) \in DOMAIN snap /\ es[p[1]][1] \in DOMAIN m
                  => snap[prime(es[p[2]][1])]
                        = convert(m[es[p[1]][1]], SlotType(fnc, es[p[2]][1])).val
    ]_vars

\* C1, the failing case: sortown committed loc 2, whose list writes a, sorts
\* a and then reads a: the step started with a = [2, 1], and both the
\* unprimed slot of a in its snapshot and the value b' read are [1, 2]
C1_SortedBeforeRead ==
    /\ call.entryfnc = "sortown"
    /\ Len(eng.trace) >= 2
    /\ eng.trace[1].mem[<<"a", 1>>] = ListV(<<I(2), I(1)>>)
    /\ eng.trace[2].mem[<<"a", 0>>] = ListV(<<I(1), I(2)>>)
    /\ eng.trace[2].mem[<<"a", 1>>] = ListV(<<I(3)>>)
    /\ eng.trace[2].mem[<<"b", 1>>] = ListV(<<I(1), I(2)>>)

\* C1 witness: swap committed loc 2, where y := x follows x := y + 1: y' is
\* the old x, which differs from the x' just written
C1_Witness ==
    \E i \in 1..Len(eng.trace) :
        LET e == eng.trace[i] IN
        /\ e.fnc = "swap" /\ e.loc = 2
        /\ e.mem[<<"y", 1>>] = e.mem[<<"x", 0>>]
        /\ e.mem[<<"x", 1>>] # e.mem[<<"x", 0>>]
        /\ e.mem[<<"z", 1>>] = e.mem[<<"x", 1>>]

\* the memory of the innermost activation when the for loop of its current
\* step is left, before the commit
BeforeCommit ==
    EvalExprs(Top.fnc, exprs(Top.fnc, eng.loc), 1, Top.mem,
              [Top.start EXCEPT !.replay = Top.memo]).mem

\* a committing transition after which the activation goes on
Continues == Commits /\ pc' = "running" /\ Len(stack') = Len(stack)

\* a name without its prime mark
Base(v) == IF isprimed(v) THEN unprime(v) ELSE v

\* the value the commit gives the unprimed name v of memory m
Committed(m, v) == IF prime(v) \in DOMAIN m THEN m[prime(v)] ELSE m[v]

\* C2 (amended): commit.  For the memory m a step leaves, the continuing
\* memory contains exactly the names of m with their prime mark removed (a
\* name that has only a primed slot in m included); each name with a primed
\* slot gets the primed value, each name with only an unprimed slot keeps its
\* value, and no primed name remains.  The recorded snapshot keeps every slot
\* of m and has, for every unprimed name, a primed counterpart holding the
\* committed value.
C2_Commit ==
    [][Commits =>
        LET m == BeforeCommit
            snap == Last(eng'.trace).mem
            cont == stack'[Len(stack')].mem
        IN  /\ Continues =>
                /\ DOMAIN cont = {Base(v) : v \in DOMAIN m}
                /\ \A v \in DOMAIN cont : ~isprimed(v) /\ cont[v] = Committed(m, v)
            /\ DOMAIN m \subseteq DOMAIN snap
            /\ \A v \in DOMAIN m : snap[v] = m[v]
            /\ \A v \in DOMAIN snap :
                  ~isprimed(v) => /\ prime(v) \in DOMAIN snap
                                  /\ snap[prime(v)] = Committed(m, v)
    ]_vars

\* C2 as stated: the continuing memory contains exactly the unprimed names
\* of m
C2_ExactlyUnprimedNames ==
    [][Continues =>
        DOMAIN stack'[Len(stack')].mem = {v \in DOMAIN BeforeCommit : ~isprimed(v)}
    ]_vars

\* C2 witness: swap has committed loc 2 and goes on: z, which had only a
\* primed slot, is in the continuing memory, x has its written value and a
\* its carried one
C2_Witness ==
    /\ pc = "running" /\ Top.fnc.name = "swap" /\ eng.loc = 3
    /\ <<"z", 0>> \in DOMAIN Top.mem
    /\ <<"z", 0>> \notin DOMAIN Last(eng.trace).mem
    /\ Top.mem[<<"x", 0>>] = Last(eng.trace).mem[<<"x", 1>>]
    /\ Top.mem[<<"x", 0>>] # Last(eng.trace).mem[<<"x", 0>>]
    /\ Top.mem[<<"a", 0>>] = Last(eng.trace).mem[<<"a", 0>>]
    /\ <<"a", 1>> \in DOMAIN Last(eng.trace).mem

\* C3 as stated: commit invariant.  In every committed step of every
\* activation, the outermost and the nested ones, every variable declared in
\* the type table of the executing function is in the recorded snapshot.
C3_DeclaredInEverySnapshot ==
    [][Commits =>
        DOMAIN Top.fnc.types \subseteq DOMAIN Last(eng'.trace).mem
    ]_vars

\* C3: run fact(2) has returned; the snapshots of the outermost activation
\* hold the declared tmp, the first snapshot of the nested activation
\* (memory of lines 342-352: $in, $out and n) does not
C3_NestedSnapshotLacksDeclared ==
    /\ pc = "returned" /\ call.entryfnc = "fact" /\ call.args = <<I(2)>>
    /\ <<"tmp", 0>> \in DOMAIN eng.trace[1].mem
    /\ \E i \in 1..Len(eng.trace) :
          /\ eng.trace[i].fnc = "fact"
          /\ <<"n", 0>> \in DOMAIN eng.trace[i].mem
          /\ <<"tmp", 0>> \notin DOMAIN eng.trace[i].mem
          /\ <<"$ret", 0>> \notin DOMAIN eng.trace[i].mem

\* the evaluation of the first k pairs of the current step's list
Prefix(k) ==
    EvalExprs(Top.fnc, SubSeq(exprs(Top.fnc, eng.loc), 1, k), 1, Top.mem,
              [Top.start EXCEPT !.replay = Top.memo])

\* the pairs of the current step's list that assign the return variable a
\* non-Undef value
ReturnPairs ==
    {k \in 1..Len(exprs(Top.fnc, eng.loc)) :
        /\ exprs(Top.fnc, eng.loc)[k][1] = VAR_RET
        /\ Prefix(k).exc = "none"
        /\ ~isundef(Get(Prefix(k).mem, prime(VAR_RET), UndefValue))}

\* the first of them
ReturnPair == CHOOSE k \in ReturnPairs : \A j \in ReturnPairs : k <= j

\* C4: early return.  When a pair of the current location gives the return
\* variable a non-Undef value, the step is committed and recorded as the
\* pairs up to that one left it (no later pair has written a slot, appended
\* output or run a nested activation), and the activation ends without a
\* move to another location: run returns with the location unchanged, or the
\* caller of a nested activation is resumed.
C4_EarlyReturn ==
    [][pc = "running" /\ ReturnPairs # {} =>
        LET pre == Prefix(ReturnPair) IN
        /\ eng'.trace = Append(pre.eng.trace,
                               TraceEntry(pre.eng, procmem(pre.mem).mem))
        /\ eng'.output = pre.eng.output
        /\ IF Len(stack) = 1
           THEN pc' = "returned" /\ stack' = <<>> /\ eng'.loc = eng.loc
           ELSE /\ pc' = "running" /\ Len(stack') = Len(stack) - 1
                /\ eng'.loc = stack[Len(stack) - 1].oldloc
    ]_vars

\* C4 witness: run early(2) has returned from loc 1, where the return pair
\* is followed by an output append and a call of side: one trace entry,
\* z never written, no output, the location still 1
C4_Witness ==
    /\ pc = "returned" /\ call.entryfnc = "early" /\ call.args = <<I(2)>>
    /\ Len(eng.trace) = 1 /\ eng.trace[1].fnc = "early" /\ eng.trace[1].loc = 1
    /\ eng.trace[1].mem[<<"$ret", 1>>] = I(2)
    /\ eng.trace[1].mem[<<"z", 1>>] = UndefValue
    /\ eng.trace[1].mem[<<"$out", 1>>] = StrV(<<>>)
    /\ eng.output = <<>> /\ eng.retval = I(2) /\ eng.loc = 1

\* the activation of the committing step ends and its return value is Undef:
\* run returns with retval Undef, or the FuncCall of the caller yields Undef
EndsWithUndef ==
    IF Len(stack) = 1
    THEN pc' = "returned" /\ stack' = <<>> /\ eng'.retval = UndefValue
    ELSE /\ pc' = "running" /\ Len(stack') = Len(stack) - 1
         /\ Last(stack'[Len(stack')].memo).val = UndefValue

\* the activation of the committing step goes on at location l
MovesTo(l) == Continues /\ eng'.loc = l /\ stack'[Len(stack')].start.loc = l

\* C5: next-location selection.  After a committed step whose return
\* variable is Undef: a location without transitions ends the activation
\* with return value Undef; a location with one transition moves to its
\* target whatever the condition variable holds; a location with two moves
\* to the True edge iff the committed condition variable is true-like, and
\* to the False edge otherwise.
C5_NextLocation ==
    [][Commits /\ isundef(Get(Last(eng'.trace).mem, prime(VAR_RET), UndefValue)) =>
        LET tt == Top.fnc.loctrans[eng.loc]
            cond == Get(Last(eng'.trace).mem, prime(VAR_COND), None)
        IN  CASE tt.T = NoLoc /\ tt.F = NoLoc -> EndsWithUndef
              [] tt.T # NoLoc /\ tt.F = NoLoc -> MovesTo(tt.T)
              [] tt.T = NoLoc /\ tt.F # NoLoc -> MovesTo(tt.F)
              [] OTHER -> MovesTo(IF Truthy(cond) THEN tt.T ELSE tt.F)
    ]_vars

\* C5 witness: fact took the False edge of loc 1 on a false condition, and
\* then the only transition of loc 3 while the condition variable held false
C5_Witness ==
    /\ pc = "running" /\ Top.fnc.name = "fact" /\ eng.loc = 4
    /\ Last(eng.trace).fnc = "fact" /\ Last(eng.trace).loc = 3
    /\ Top.mem[VAR_COND] = BoolV(FALSE)
    /\ Len(eng.trace) >= 2
    /\ eng.trace[Len(eng.trace) - 1].loc = 1
    /\ eng.trace[Len(eng.trace) - 1].mem[prime(VAR_COND)] = BoolV(FALSE)

\* C6 as stated: the trace run returns has only steps of the outermost
\* activation; in particular no entry of it is a step of another function
\* than the entry function.
C6_OnlyOutermostSteps ==
    pc = "returned" =>
        \A i \in 1..Len(result.trace) : result.trace[i].fnc = call.entryfnc

IsPrefix(a, b) == Len(a) <= Len(b) /\ SubSeq(b, 1, Len(a)) = a
\* the steps a trace records: function and location of each entry
StepsOf(tr) == [i \in 1..Len(tr) |-> <<tr[i].fnc, tr[i].loc>>]

\* C6 (amended): the trace run returns is the one trace of the run, to which
\* every committed step of every activation, outermost or nested, is
\* appended under its own function name and location and from which nothing
\* is removed; the steps of the nested activations a step started precede
\* the entry of that step.
C6_TraceOfAllActivations ==
    [][pc = "running" =>
        /\ IsPrefix(StepsOf(eng.trace), StepsOf(eng'.trace))
        /\ Commits =>
              /\ Last(eng'.trace).fnc = Top.fnc.name
              /\ Last(eng'.trace).loc = Top.start.loc
              /\ Len(eng.trace) >= Len(Top.start.trace) + Len(Top.memo)
        /\ pc' = "returned" => result'.trace = eng'.trace
    ]_vars

\* C6 witness: run early(0) has returned; the step of side, started by the
\* call at loc 1 of early, is the first entry of the returned trace, before
\* the entry of loc 1 that holds the call's value in z'
C6_Witness ==
    /\ pc = "returned" /\ call.entryfnc = "early" /\ call.args = <<I(0)>>
    /\ Len(result.trace) = 4
    /\ result.trace[1].fnc = "side" /\ result.trace[1].loc = 1
    /\ result.trace[2].fnc = "early" /\ result.trace[2].loc = 1
    /\ result.trace[2].mem[<<"z", 1>>] = I(7)
    /\ result.trace[4].fnc = "early" /\ result.trace[4].loc = 3

\* a transition in which a nested activation ends and its caller is resumed
Leaves == pc = "running" /\ pc' = "running" /\ Len(stack') = Len(stack) - 1

\* the pairs of a list whose expression is a FuncCall
CallPairs(es) ==
    {i \in 1..Len(es) : es[i][2].k = "Op" /\ es[i][2].name = "FuncCall"}

\* C7: the value of a FuncCall.  When a nested activation ends, the value
\* its caller's FuncCall yields is the value the callee's own last step left
\* in the callee's return variable (the one written in that step, else the
\* one carried into it), and Undef when the callee has none; that step is
\* the last entry of the trace.  A step whose one call is the whole
\* expression of a pair stores that value, converted, in the pair's slot.
C7_CallValue ==
    [][/\ Leaves =>
            LET v == Last(stack'[Len(stack')].memo).val
                m == BeforeCommit
            IN  /\ Commits
                /\ Last(eng'.trace).fnc = Top.fnc.name
                /\ v = Get(m, prime(VAR_RET), Get(m, VAR_RET, UndefValue))
       /\ Commits =>
            LET es == exprs(Top.fnc, eng.loc) IN
            \A i \in CallPairs(es) :
                Len(Top.memo) = 1 /\ Cardinality(CallPairs(es)) = 1
                /\ WriteSlot(es[i][1]) \in DOMAIN Last(eng'.trace).mem
                => Last(eng'.trace).mem[WriteSlot(es[i][1])]
                      = convert(Top.memo[1].val, SlotType(Top.fnc, es[i][1])).val
    ]_vars

\* C7 witness: in run fact(3) the nested fact(2) has ended and the outermost
\* activation is resumed with the value 2, which the last step of fact(2)
\* (loc 4, after the steps of its own nested fact(1)) committed to $ret'
C7_Witness ==
    /\ pc = "running" /\ Len(stack) = 1 /\ call.entryfnc = "fact"
    /\ call.args = <<I(3)>>
    /\ Len(Top.memo) = 1 /\ Top.memo[1].val = I(2)
    /\ Last(eng.trace).fnc = "fact" /\ Last(eng.trace).loc = 4
    /\ Last(eng.trace).mem[prime(VAR_RET)] = I(2)
    /\ eng.trace[Len(eng.trace) - 1].loc = 2
    /\ eng.trace[Len(eng.trace) - 1].mem[prime(VAR_RET)] = I(1)

\* a value of the declared type t: converting it to t leaves it as it is
OfType(val, t) == convert(val, t) = Ok(val)

\* C8 as stated: parameter binding converts.  In every activation, the
\* outermost and the nested ones, each parameter holds a value of its
\* declared type.
C8_ParametersConverted ==
    \A k \in 1..Len(stack) :
        \A j \in 1..Len(stack[k].fnc.params) :
            LET p == stack[k].fnc.params[j] IN
            p[1] \in DOMAIN stack[k].mem => OfType(stack[k].mem[p[1]], p[2])

\* C8: run pass(True) is in the nested activation of id, whose int
\* parameter x holds the bool True as the caller passed it
C8_NestedParameterUnconverted ==
    /\ pc = "running" /\ call.entryfnc = "pass" /\ call.args = <<BoolV(TRUE)>>
    /\ Len(stack) = 2 /\ Top.fnc.name = "id"
    /\ Top.fnc.params = <<<<N("x"), T_int>>>>
    /\ Top.mem[N("x")] = BoolV(TRUE)
    /\ convert(BoolV(TRUE), T_int) = Ok(IntV(1))

\* the run call in progress or last made names a function of the program
\* and gives it another number of arguments than it has parameters
WrongArity ==
    /\ call.entryfnc \in DOMAIN Program(Library)
    /\ Len(call.args) # Len(Program(Library)[call.entryfnc].params)

\* C9 as stated: arity check.  A run call whose argument list, the empty
\* one included, has another length than the parameter count of the entry
\* function fails with the arity error and records no step; and the run of
\* callone, whose FuncCall gives two one argument, fails without a step of
\* two in the trace.
C9_ArityChecked ==
    /\ WrongArity =>
          /\ pc = "raised" /\ result.exc = "RuntimeErr"
          /\ result.msg = "Wrong number of args"
          /\ eng.trace = <<>>
    /\ call.entryfnc = "callone" =>
          /\ pc # "returned"
          /\ pc = "raised" => result.exc = "RuntimeErr"
                              /\ result.msg = "Wrong number of args"
          /\ \A i \in 1..Len(eng.trace) : eng.trace[i].fnc = "callone"

\* C9: run two() with no arguments, for the two parameters a and b, has
\* returned: the arity check of run was skipped and the one step of two is
\* in the trace, with both parameters Undef
C9_EmptyArgsRun ==
    /\ pc = "returned" /\ call.entryfnc = "two" /\ call.args = <<>>
    /\ Len(Program(Library)["two"].params) = 2
    /\ Len(result.trace) = 1 /\ result.trace[1].fnc = "two"
    /\ result.trace[1].mem[N("a")] = UndefValue
    /\ result.trace[1].mem[N("b")] = UndefValue

\* C10 as stated: failure normalization.  Whatever fault the evaluation of
\* an expression raises during a step, the exception run raises is a
\* RuntimeErr.
C10_OnlyRuntimeErr ==
    pc = "raised" => result.exc = "RuntimeErr"

\* C10: run fault(1) has raised at loc 3, whose literal abc is no null,
\* undef, string, char, bool or number: the AssertionError of execute_Const
\* is none of the classes the except clause of execute names
C10_AssertionEscapes ==
    /\ pc = "raised" /\ call.entryfnc = "fault" /\ call.args = <<I(1)>>
    /\ result.exc = "AssertionError"
    /\ ~IsCaught("AssertionError")
    /\ Len(eng.trace) = 2 /\ eng.loc = 3

\* a is a prefix of b
\* a transition in which run raises after at least one committed step
AbortsAfterSteps == pc = "running" /\ pc' = "raised" /\ Len(eng.trace) >= 1

\* C11 as stated: no partial result on error.  When run raises after steps
\* were committed, the caller gets no trace and the engine's trace, output
\* and return value hold nothing of the aborted run.
C11_NothingExposed ==
    [][AbortsAfterSteps =>
        /\ result'.trace = <<>>
        /\ eng'.trace = <<>> /\ eng'.output = <<>> /\ eng'.retval = None
    ]_vars

\* C11 (amended): when run raises after steps were committed, the caller
\* gets the error and no trace, and the engine's return value is None; the
\* engine's trace still holds every step the aborted run committed and its
\* output every text the run appended.
C11_ErrorKeepsEngineFields ==
    [][AbortsAfterSteps =>
        /\ result'.kind = "raise" /\ result'.trace = <<>>
        /\ eng'.retval = None
        /\ IsPrefix(StepsOf(eng.trace), StepsOf(eng'.trace))
        /\ IsPrefix(eng.output, eng'.output)
    ]_vars

\* C11 witness: run fault(0) has raised at loc 2 (1 / 0) after the step of
\* loc 1, which printed ok: the step and the text are still in the engine
C11_Witness ==
    /\ pc = "raised" /\ call.entryfnc = "fault" /\ call.args = <<I(0)>>
    /\ result.exc = "RuntimeErr" /\ result.trace = <<>>
    /\ Len(eng.trace) = 1 /\ eng.trace[1].fnc = "fault" /\ eng.trace[1].loc = 1
    /\ eng.output = <<111, 107>> /\ eng.retval = None

\* a transition of the engine (a step of a run in progress), as opposed to
\* the passing of time
Steps == pc = "running" /\ eng'.now = eng.now

\* C12 as stated: timeout liveness.  The timeout is polled in every executed
\* step: once the clock has passed the budget T, the next step of the run,
\* whatever the location it is at, ends the run with the Timeout error.
C12_TimeoutOnceElapsed ==
    [][Steps /\ TimedOut(eng) =>
        pc' = "raised" /\ result'.exc = "RuntimeErr" /\ result'.msg = "Timeout"
    ]_vars

\* C12: the run of idle, a cycle through two locations without expressions,
\* under the budget T: the clock has passed T by more than one unit and the
\* run is still committing steps
C12_IdleOutlivesBudget ==
    /\ pc = "running" /\ call.entryfnc = "idle" /\ Top.fnc.name = "idle"
    /\ eng.timeout = Budget /\ eng.now - eng.starttime > Budget + 1
    /\ exprs(Top.fnc, 1) = <<>> /\ exprs(Top.fnc, 2) = <<>>
    /\ Len(eng.trace) = MaxTrace

\* C13: timeout safety.  The start time is the clock at the moment run is
\* called and stays so while the run is in progress, nested activations
\* included; and when a run ends with the Timeout error, a budget is
\* configured and the time elapsed since that start exceeds it.
C13_TimeoutSafety ==
    [][/\ pc # "running" /\ pc' = "running" => eng'.starttime = eng.now
       /\ pc = "running" => eng'.starttime = eng.starttime
       /\ pc = "running" /\ pc' = "raised" /\ result'.msg = "Timeout" =>
             /\ eng.timeout # 0
             /\ eng.now - eng.starttime > eng.timeout
    ]_vars

\* C13 witness: run callspin under the budget T has ended with Timeout
\* inside its nested activation of spin, with T + 1 elapsed since the run
\* began
C13_Witness ==
    /\ pc = "raised" /\ result.msg = "Timeout" /\ call.entryfnc = "callspin"
    /\ eng.timeout = Budget /\ eng.now - eng.starttime = Budget + 1
    /\ eng.fnc = "spin"
    /\ \E i \in 1..Len(eng.trace) : eng.trace[i].fnc = "spin"


\* C14: snapshot isolation.  While a run goes on, no step changes a value of
\* a snapshot the trace already holds: the entries recorded so far are the
\* first entries of the trace after the step, value for value.
C14_SnapshotsIsolated ==
    [][pc = "running" => IsPrefix(eng.trace, eng'.trace)]_vars

\* C14 witness: run sortcall has committed loc 1, which sorts the array the
\* call of mk returned; the snapshot of mk's step, recorded with $ret' =
\* [2, 1], now holds [1, 2]
C14_SortReachesSnapshot ==
    /\ call.entryfnc = "sortcall"
    /\ Len(eng.trace) >= 2
    /\ eng.trace[1].fnc = "mk"
    /\ eng.trace[1].mem[prime(VAR_RET)] = ListV(<<I(1), I(2)>>)
    /\ eng.trace[2].fnc = "sortcall"
    /\ eng.trace[2].mem[<<"u", 1>>] = None

\* C15: shared input channel.  When a nested activation returns, the input
\* stream of its caller is the stream the callee was left with: what the
\* callee consumed is no longer offered to the caller.
C15_CalleeReadsConsumed ==
    [][Leaves =>
        Get(stack'[Len(stack')].mem, VAR_IN, UndefValue)
            = Get(Last(eng'.trace).mem, prime(VAR_IN), UndefValue)
    ]_vars

\* C15 witness: run readtwice on the input 5, 6 has returned [5, 5]: read
\* consumed 5 and was left with the stream [6], and the read of the caller
\* that followed the call yielded 5 again
C15_CallerRereadsFirst ==
    /\ pc = "returned"
    /\ call.entryfnc = "readtwice" /\ call.ins = <<I(5), I(6)>>
    /\ eng.trace[2].fnc = "read"
    /\ eng.trace[2].mem[prime(VAR_IN)] = ListV(<<I(6)>>)
    /\ eng.retval = ListV(<<I(5), I(5)>>)

RECURSIVE HasCall(_)
\* whether an expression holds a FuncCall
HasCall(e) ==
    e.k = "Op" /\ (e.name = "FuncCall" \/ \E i \in 1..Len(e.args) : HasCall(e.args[i]))

\* the n-th pair of a list whose expression holds a call; 0 for n = 0
NthCall(es, n) ==
    IF n = 0 THEN 0
    ELSE CHOOSE i \in 1..Len(es) :
            /\ HasCall(es[i][2])
            /\ Cardinality({j \in 1..i : HasCall(es[j][2])}) = n

\* a pair that appends a quoted text to the output, and the text
AppendsText(pair) ==
    /\ pair[2].k = "Op" /\ pair[2].name = "StrAppend" /\ Len(pair[2].args) = 2
    /\ pair[2].args[1] = Var(VAR_OUT) /\ pair[2].args[2].k = "Const"
TextOf(pair) == SubSeq(pair[2].args[2].value, 2, Len(pair[2].args[2].value) - 1)

RECURSIVE Texts(_, _, _)
\* the texts the pairs lo + 1 .. hi of a list append, in order
Texts(es, lo, hi) ==
    IF lo >= hi THEN <<>>
    ELSE (IF AppendsText(es[lo + 1]) THEN TextOf(es[lo + 1]) ELSE <<>>)
            \o Texts(es, lo + 1, hi)

\* the last pair this transition evaluates to its end: the one before the
\* call a nested activation is entered for, else the pair that returns,
\* else the last of the list
LastEvaluated(es) ==
    IF Len(stack') = Len(stack) + 1 THEN NthCall(es, Len(Top.memo) + 1) - 1
    ELSE IF ReturnPairs # {} THEN ReturnPair
    ELSE Len(es)

\* C16: accumulated output.  The output is empty when a run starts; during
\* the run every transition leaves the earlier output as a prefix of the
\* later one; and every transition that does not abort the run extends the
\* output by exactly the texts of the output appends it evaluates, in the
\* order of evaluation, whichever activation evaluates them (the pairs after
\* the calls the step has completed, up to the next call, the returning pair
\* or the end of the list).
C16_AccumulatedOutput ==
    [][/\ runs' = runs + 1 => eng'.output = <<>>
       /\ pc = "running" => IsPrefix(eng.output, eng'.output)
       /\ pc = "running" /\ pc' # "raised" =>
            eng'.output = eng.output
                \o Texts(exprs(Top.fnc, eng.loc),
                         NthCall(exprs(Top.fnc, eng.loc), Len(Top.memo)),
                         LastEvaluated(exprs(Top.fnc, eng.loc)))
    ]_vars

\* C16 witness: run wrap has returned with the output asb: a and b appended
\* by the step of wrap, s in between by the nested activation of side,
\* whose trace entry precedes that of the step of wrap
C16_Witness ==
    /\ pc = "returned" /\ call.entryfnc = "wrap"
    /\ eng.output = <<97, 115, 98>>
    /\ eng.trace[1].fnc = "side" /\ eng.trace[2].fnc = "wrap"
    /\ runs = 2

\* C17: the output variable in memory is append-only.  In every committed
\* step of an activation that holds a text in $out, the value the step
\* commits to $out has the value committed before as a prefix, and is that
\* value followed by the texts the step appended.
C17_OutputVariableAppendOnly ==
    [][Commits /\ VAR_OUT \in DOMAIN Top.mem /\ Top.mem[VAR_OUT].t = "str" =>
        /\ Last(eng'.trace).mem[prime(VAR_OUT)].t = "str"
        /\ IsPrefix(Top.mem[VAR_OUT].v, Last(eng'.trace).mem[prime(VAR_OUT)].v)
        /\ Last(eng'.trace).mem[prime(VAR_OUT)].v
              = Top.mem[VAR_OUT].v
                    \o Texts(exprs(Top.fnc, eng.loc), 0,
                             LastEvaluated(exprs(Top.fnc, eng.loc)))
    ]_vars

\* C17 witness: run early(0) has returned with the output xsy; the step of
\* loc 2, which appended y, started with $out = x and committed $out' = y
C17_OutputVariableHoldsLastText ==
    /\ pc = "returned" /\ call.entryfnc = "early" /\ call.args = <<I(0)>>
    /\ eng.output = <<120, 115, 121>>
    /\ Last(eng.trace).loc = 3
    /\ eng.trace[3].loc = 2
    /\ eng.trace[3].mem[VAR_OUT] = StrV(<<120>>)
    /\ eng.trace[3].mem[prime(VAR_OUT)] = StrV(<<121>>)

\* ------------------------------------------------------------------------
\* A run on its own: Interpreter.run on an engine no run has used, as one
\* function of the call, built from the operators of the steps
\* ------------------------------------------------------------------------
\* the caller of a nested call, as execute_FuncCall remembers it
Caller(s, start) == [oldfnc |-> s.eng.fnc, oldloc |-> s.eng.loc, start |-> start]

\* the engine a nested activation starts with, for the call signal s
Nested(s) ==
    [EnterFunction(s.val.fnc, Tick(Lent(s.eng, s.mem))) EXCEPT !.depth = s.eng.depth + 1]

RECURSIVE Activation(_, _, _, _)
\* the caller goes on with the result c of the nested activation
Resume(fnc, mem, start, memo, s, c) ==
    IF c.exc # "none" THEN c
    ELSE Activation(fnc, mem, start,
                    Append(memo, [val |-> CallResult(c.eng.trace),
                                  eng |-> Back(c.eng, Caller(s, start))]))

\* the activation of fnc, in a step begun with memory mem and engine start
\* of which the calls of memo are done, run to its end: how its last
\* iteration ended
Activation(fnc, mem, start, memo) ==
    LET s == Normalize(StepOnce(fnc, mem, [start EXCEPT !.replay = memo])) IN
    IF s.exc = "Call"
    THEN Resume(fnc, mem, start, memo, s, Activation(s.val.fnc, s.val.mem, Nested(s), <<>>))
    ELSE IF s.exc # "none" \/ s.done THEN s
    ELSE Activation(fnc, s.mem, s.eng, <<>>)

\* what a run yields to its caller: the error, or the trace with the
\* output and the return value of the engine
Fails(k, m) ==
    [kind |-> "raise", exc |-> k, msg |-> m, trace |-> <<>>, output |-> <<>>,
     retval |-> None]
Yields(s) ==
    IF s.exc # "none" THEN Fails(s.exc, s.msg)
    ELSE [kind |-> "return", exc |-> "none", msg |-> "", trace |-> s.eng.trace,
          output |-> s.eng.output, retval |-> RetvalOf(s.eng.trace)]

AloneLaunch(fnc, e1, b) ==
    IF b.exc # "none" THEN Fails(b.exc, b.msg)
    ELSE Yields(Activation(fnc, b.val,
                           Activated(<<>>, fnc, Tick([e1 EXCEPT !.starttime = e1.now])),
                           <<>>))

AloneLookup(e0, g, c) ==
    IF g.exc # "none" THEN Fails("RuntimeErr", "Unknown function")
    ELSE IF RunArityFails(g.val, c.args) THEN Fails("RuntimeErr", "Wrong number of args")
    ELSE AloneLaunch(g.val, e0, BindAll(g.val.params, c.args, InitMem(g.val, c.ins), TRUE))

\* what the call c of run on the program prog yields on the new engine e
AloneOn(prog, c, e) ==
    AloneLookup(Reset(e, prog),
                getfnc(Reset(e, prog), IF c.entryfnc # "" THEN c.entryfnc ELSE e.entryfnc),
                c)

\* what the call c of run yields on a new engine
Alone(c) == AloneOn(Program(Library), c, NewEngine)

\* a transition in which a run ends (in a step, or before its first step),
\* and what it yields
RunEnds ==
    /\ pc = "running" \/ runs' = runs + 1
    /\ pc' \in {"returned", "raised"}
    /\ other' = other
Yielded ==
    IF result'.kind = "raise" THEN Fails(result'.exc, result'.msg)
    ELSE [kind |-> "return", exc |-> "none", msg |-> "", trace |-> result'.trace,
          output |-> eng'.output, retval |-> eng'.retval]

\* whether no location of the functions of a program has two transitions
BranchFree(prog) ==
    \A n \in DOMAIN prog : \A l \in DOMAIN prog[n].loctrans : numtrans(prog[n], l) < 2

\* the functions a run entered at function n can reach by calls
RECURSIVE Calls(_)
Calls(e) ==
    IF e.k # "Op" THEN {}
    ELSE (IF e.name = "FuncCall" THEN {e.args[1].name[1]} ELSE {})
            \cup UNION {Calls(e.args[i]) : i \in 2..Len(e.args)}
            \cup (IF e.name # "FuncCall" /\ Len(e.args) >= 1 THEN Calls(e.args[1]) ELSE {})
Callees(f) ==
    UNION {UNION {Calls(f.locexprs[l][i][2]) : i \in 1..Len(f.locexprs[l])} :
              l \in DOMAIN f.locexprs}
RECURSIVE Reach(_, _)
Reach(prog, ns) ==
    LET more == ns \cup UNION {Callees(prog[n]) : n \in ns \cap DOMAIN prog}
    IN  IF more = ns THEN ns ELSE Reach(prog, more)
\* the part of the program a run of the call c can execute
Executed(c) ==
    [n \in Reach(Program(Library), {IF c.entryfnc # "" THEN c.entryfnc ELSE "main"})
            \cap DOMAIN Program(Library) |-> Program(Library)[n]]

\* C19: determinism under repeated invocation.  Every run of a branch-free
\* program on the engine, the first and the one that follows another run on
\* it, yields what the same call yields on a new engine: the same error, or
\* the same trace, output and return value.  (Two identical calls, one after
\* the other, therefore yield the same.)
C19_RepeatedRunSameResult ==
    [][RunEnds /\ BranchFree(Executed(call')) => Yielded = Alone(call')]_vars

\* C19 witness: the second run on the engine, of wrap, has returned: it
\* yields its own three steps, the output asb and the value 7
C19_Witness ==
    /\ pc = "returned" /\ runs = 2 /\ call.entryfnc = "wrap"
    /\ Len(result.trace) = 3 /\ eng.output = <<97, 115, 98>>
    /\ eng.retval = I(7)

\* C18: safe overlapping use of one engine.  When the runs of two callers of
\* one engine overlap, every run yields what its call yields on an engine of
\* its own: the same error, or the same trace, output and return value.
C18_OverlappedRunsAsAlone ==
    [][RunEnds => Yielded = Alone(call')]_vars

\* C18 witness: run side and run none overlapped: side was started, then
\* none, then the one step of side was taken and then that of none.  The
\* step of side is recorded under the function none's run had set, and run
\* none returned it with its own step, and with the output of side
C18_StepsOfBothInOneTrace ==
    /\ pc = "returned" /\ call.entryfnc = "none"
    /\ other.pc = "returned" /\ other.call.entryfnc = "side"
    /\ Len(other.result.trace) = 1 /\ other.result.trace[1].fnc = "none"
    /\ prime(VAR_OUT) \in DOMAIN other.result.trace[1].mem
    /\ other.result.trace[1].mem[prime(VAR_OUT)] = StrV(<<115>>)
    /\ Len(result.trace) = 2
    /\ result.trace[1] = other.result.trace[1]
    /\ eng.output = <<115>>

\* the steps whose first pair indexes, or assigns to, the array of one
\* variable at the index held by another
Indexes(op) ==
    /\ pc = "running" /\ exprs(Top.fnc, eng.loc) # <<>>
    /\ exprs(Top.fnc, eng.loc)[1][2].k = "Op"
    /\ exprs(Top.fnc, eng.loc)[1][2].name = op
    /\ exprs(Top.fnc, eng.loc)[1][2].args[1].k = "Var"
    /\ exprs(Top.fnc, eng.loc)[1][2].args[2].k = "Var"
    /\ Top.mem[tostr(exprs(Top.fnc, eng.loc)[1][2].args[1])].t = "list"
    /\ Top.mem[tostr(exprs(Top.fnc, eng.loc)[1][2].args[2])].t = "int"
\* the array, the index and the slot the pair writes
Arr == Top.mem[tostr(exprs(Top.fnc, eng.loc)[1][2].args[1])].v
Idx == Top.mem[tostr(exprs(Top.fnc, eng.loc)[1][2].args[2])].v
Dst == WriteSlot(exprs(Top.fnc, eng.loc)[1][1])
OutOfBounds ==
    /\ pc' = "raised" /\ result'.exc = "RuntimeErr"
    /\ result'.msg = "Array index out of bounds"

\* C20: array bounds.  A step that indexes an array of length n at i, or
\* assigns to position i of it, aborts the run with the out-of-bounds error
\* when i < 0 or i >= n, and only then; otherwise the step is committed, the
\* index yields element i and the assignment an array that differs from the
\* source at position i only, while the source array, in the snapshot and
\* in the memory the activation goes on with, is as it was before the step.
C20_ArrayBounds ==
    [][/\ Indexes("[]") =>
            IF Idx < 0 \/ Idx >= Len(Arr) THEN OutOfBounds
            ELSE /\ Commits
                 /\ Last(eng'.trace).mem[Dst]
                       = convert(Arr[Idx + 1], SlotType(Top.fnc, unprime(Dst))).val
       /\ Indexes("ArrayAssign") =>
            IF Idx < 0 \/ Idx >= Len(Arr) THEN OutOfBounds
            ELSE /\ Commits /\ Continues
                 /\ Len(Last(eng'.trace).mem[Dst].v) = Len(Arr)
                 /\ \A j \in 1..Len(Arr) :
                      j # Idx + 1 => Last(eng'.trace).mem[Dst].v[j] = Arr[j]
                 /\ Last(eng'.trace).mem[Dst].v[Idx + 1] = I(9)
                 /\ Last(eng'.trace).mem[N("arr")].v = Arr
                 /\ Last(eng'.trace).mem[<<"c", 1>>].v = Arr
                 /\ stack'[Len(stack')].mem[N("arr")].v = Arr
    ]_vars

\* C20 witness: run put(2) has returned [1, 2, 9]; the snapshot of the
\* assigning step holds the source array [1, 2, 3] in arr, arr' and c'
C20_Witness ==
    /\ pc = "returned" /\ call.entryfnc = "put" /\ call.args = <<I(2)>>
    /\ eng.retval = ListV(<<I(1), I(2), I(9)>>)
    /\ eng.trace[2].mem[N("arr")] = ListV(<<I(1), I(2), I(3)>>)
    /\ eng.trace[2].mem[<<"arr", 1>>] = ListV(<<I(1), I(2), I(3)>>)
    /\ eng.trace[2].mem[<<"c", 1>>] = ListV(<<I(1), I(2), I(3)>>)

\* a step of a lazy program at loc 1, its expression and its left operand
\* (the condition of an ite), the parameter a
LazyStep == pc = "running" /\ Top.fnc.name \in LazyEntries /\ eng.loc = 1
LazyExpr == exprs(Top.fnc, 1)[1][2]
Left == Get(Top.mem, N("a"), UndefValue)
\* the operand the semantics do not skip: the taken branch of an ite, the
\* right operand of && and ||, or none
NoOperand == [k |-> "none"]
Chosen ==
    IF LazyExpr.name = "ite"
    THEN (IF Truthy(Left) THEN LazyExpr.args[2] ELSE LazyExpr.args[3])
    ELSE IF (LazyExpr.name = "||") = Truthy(Left) THEN NoOperand
    ELSE LazyExpr.args[2]
\* what evaluating an operand does besides yielding a value
Effect(e) ==
    CASE e.k = "none" -> "none"
      [] e.k = "Op" /\ e.name = "FuncCall" -> "call"
      [] e.k = "Op" /\ e.name = "/" -> "fault"
      [] e.k = "Op" /\ e.name = "StrAppend" -> "print"
\* the value of the expression, given the operand that is evaluated
LazyValue ==
    CASE Effect(Chosen) = "none" ->
            IF LazyExpr.name = "&&" THEN IntV(0) ELSE Operand(Left).val
      [] Effect(Chosen) = "print" -> StrV(<<Chosen.args[2].value[2]>>)
      [] Effect(Chosen) = "call" ->
            IF LazyExpr.name = "ite" THEN Top.memo[1].val
            ELSE tonumeric(Top.memo[1].val).val

\* C21: lazy operands.  In the step that evaluates a && r, a || r or
\* ite(a, t, f), whose operands r, t, f call a function, print or fault,
\* only the effects of the operand the semantics choose occur, and once: no
\* operand for && with a false-like a and for || with a true-like a (the
\* value is then 0, and a itself), else r; t for a true-like a, else f.  A
\* nested activation is entered iff the chosen operand is the call and then
\* once, the run aborts iff it is the fault, the output grows by the text of
\* the chosen print and by nothing else, and the committed value is that of
\* the chosen operand.
C21_LazyOperands ==
    [][LazyStep /\ (LazyExpr.name # "ite" => Operand(Left).exc = "none") =>
        /\ Top.memo = <<>> =>
              /\ (Len(stack') = Len(stack) + 1) <=> (Effect(Chosen) = "call")
              /\ Effect(Chosen) = "call" =>
                    stack'[Len(stack')].fnc.name = Chosen.args[1].name[1]
              /\ (pc' = "raised") <=> (Effect(Chosen) = "fault")
              /\ Effect(Chosen) \in {"none", "print"} => Commits
              /\ eng'.output = eng.output
                    \o (IF Effect(Chosen) = "print"
                        THEN <<Chosen.args[2].value[2]>> ELSE <<>>)
        /\ Top.memo # <<>> =>
              /\ Len(Top.memo) = 1 /\ Effect(Chosen) = "call"
              /\ Commits /\ eng'.output = eng.output
        /\ Commits =>
              IF LazyExpr.name = "||" /\ Effect(Chosen) = "none"
              THEN PyEq(Last(eng'.trace).mem[<<"r", 1>>], Left)
                   /\ Last(eng'.trace).mem[<<"r", 1>>] = LazyValue
              ELSE Last(eng'.trace).mem[<<"r", 1>>] = LazyValue
    ]_vars

\* C21 witness: run orcall(2) has returned 2: the two steps of orcall are
\* the whole trace, without a step of side and without its output; and
\* orcall(0) would have entered side
C21_Witness ==
    /\ pc = "returned" /\ call.entryfnc = "orcall" /\ call.args = <<I(2)>>
    /\ StepsOf(eng.trace) = <<<<"orcall", 1>>, <<"orcall", 2>>>>
    /\ eng.output = <<>> /\ eng.retval = I(2)
    /\ eng.trace[1].mem[<<"r", 1>>] = I(2)

\* C25: call-context restore.  Every committed step of an activation is
\* recorded under the name of the activation's function and the location
\* the step began at, whose expressions it evaluated; an activation that
\* goes on is at the location selected from that location, and the engine
\* names its function; and when a nested activation ends, the engine names
\* the function and the location of the caller's step, at any depth.
C25_CallContextRestored ==
    [][Commits =>
        /\ Last(eng'.trace).fnc = Top.fnc.name
        /\ Last(eng'.trace).loc = Top.start.loc
        /\ Continues =>
              /\ eng'.fnc = Top.fnc.name
              /\ eng'.loc = NextLoc(Top.fnc, Top.start.loc, stack'[Len(stack')].mem).val
        /\ Leaves =>
              /\ eng'.fnc = stack[Len(stack) - 1].fnc.name
              /\ eng'.loc = stack[Len(stack) - 1].start.loc
    ]_vars

\* C25 witness: run readtwice has returned: its call of read at loc 1 left
\* the engine at loc 2 of read; the step of the call is recorded as loc 1
\* of readtwice and followed by loc 2 of readtwice
C25_Witness ==
    /\ pc = "returned" /\ call.entryfnc = "readtwice" /\ call.ins = <<I(5), I(6)>>
    /\ StepsOf(eng.trace) = <<<<"read", 1>>, <<"read", 2>>, <<"readtwice", 1>>,
                              <<"readtwice", 2>>, <<"readtwice", 3>>>>
    /\ eng.fnc = "readtwice" /\ eng.loc = 3

\* the reserved variables of the input and output channel
Channel == {VAR_IN, VAR_OUT}

\* a transition of Step that enters a nested activation
EntersNested == pc = "running" /\ pc' = "running" /\ Len(stack') = Len(stack) + 1

\* the parameter names of a Function
ParamNames(fnc) == {fnc.params[i][1] : i \in 1..Len(fnc.params)}

\* no list object is held both by the memory of one activation and, under
\* a name other than the input channel, by the memory of another
NoListShared(alias) ==
    \A g \in alias : \A p, q \in g :
        (p[1] = "mem" /\ q[1] = "mem" /\ p[2] # q[2]) => (p[3] = VAR_IN /\ q[3] = VAR_IN)

\* C26: activation-local memory.  A nested activation starts with the two
\* channel variables and its parameters and nothing else; no list of its
\* memory is an object of another activation's memory (the input channel
\* aside); while it runs and when it ends the memories of the suspended
\* activations stay as they are, the caller getting the return value as the
\* result of its call; and the step of the caller that made the call is
\* recorded with every variable it began with, the channel aside, unchanged.
C26_ActivationLocalMemory ==
    [][pc = "running" =>
        /\ EntersNested =>
              /\ DOMAIN stack'[Len(stack')].mem
                    = Channel \cup ParamNames(stack'[Len(stack')].fnc)
              /\ stack'[Len(stack)].mem = Top.mem
        /\ \A k \in 1..(Len(stack) - 1) :
              k <= Len(stack') => stack'[k].mem = stack[k].mem
        /\ NoListShared(eng'.alias)
        /\ Leaves =>
              /\ Len(stack'[Len(stack')].memo) = Len(stack[Len(stack) - 1].memo) + 1
              /\ Last(stack'[Len(stack')].memo).val
                    = Get(Last(eng'.trace).mem, <<"$ret", 1>>, UndefValue)
        /\ (Commits /\ Top.memo # <<>>) =>
              \A x \in DOMAIN Top.mem \ Channel : Last(eng'.trace).mem[x] = Top.mem[x]
    ]_vars

\* C26 witness: run keep has returned: sorter sorted the array it was given
\* to [1, 2] and returned it, and the array a of keep is [2, 1] in the step
\* of the call and in the value keep returns
C26_Witness ==
    /\ pc = "returned" /\ call.entryfnc = "keep"
    /\ StepsOf(eng.trace) = <<<<"keep", 1>>, <<"sorter", 1>>, <<"sorter", 2>>,
                              <<"keep", 2>>, <<"keep", 3>>>>
    /\ eng.trace[2].mem[N("a")] = ListV(<<I(1), I(2)>>)
    /\ eng.trace[4].mem[N("a")] = ListV(<<I(2), I(1)>>)
    /\ eng.trace[4].mem[<<"b", 1>>] = ListV(<<I(1), I(2)>>)
    /\ eng.retval = ListV(<<I(2), I(1)>>)

\* the step of an operator program, and the operator expression it evaluates
OpStep == pc = "running" /\ Top.fnc.name \in BinaryEntries \cup UnaryEntries
OpExpr == Top.fnc.locexprs[1][1][2]

\* the evaluator for the number of arguments of e, applied to e
ByCount(e, mem, en) ==
    Normalize(IF Len(e.args) = 2
              THEN execute_BinaryOp(e.name, e.args[1], e.args[2], mem, en)
              ELSE execute_UnaryOp(e.name, e.args[1], mem, en))

\* what a run that evaluates the operator expression once ends as, when the
\* evaluation ends as d
EndsAs(d) ==
    IF d.exc = "none" THEN pc' = "returned" /\ eng'.retval = d.val
    ELSE pc' = "raised" /\ result'.exc = d.exc

\* C27: operator dispatch.  An operator with a branch in the binary
\* evaluator, applied to two arguments, is evaluated by the binary
\* evaluator, and an operator of both sets is evaluated by the unary
\* evaluator on one argument and the binary one on two: the run ends as the
\* evaluator's result.
C27_OperatorDispatch ==
    [][OpStep => EndsAs(ByCount(OpExpr, Top.mem, Tick(Top.start)))]_vars

\* C27: the run of 1 | 2 raised RuntimeErr, and the binary evaluator
\* applied to 1 and 2 yields 3
C27_OrNotRouted ==
    /\ pc = "raised" /\ call.entryfnc = "|" /\ call.args = <<I(1), I(2)>>
    /\ result.exc = "RuntimeErr" /\ eng.trace = <<>>
    /\ "|" \notin BINARY_OPS
    /\ BinApply("|", I(1), I(2), <<>>) = Ok(I(3))

\* a step that evaluates hasNext() alone, and the input values the run has
\* not consumed when it begins: every step recorded before it consumed one
HasNextStep == pc = "running" /\ exprs(Top.fnc, Top.start.loc) = HasNext
Unconsumed == Len(call.ins) - Len(eng.trace)

\* C28: hasNext() never fails and yields whether an unconsumed input value
\* remains, for a stream with values left, a stream consumed during the
\* run, and a run started on an empty or absent stream.
C28_HasNext ==
    [][HasNextStep =>
        /\ pc' # "raised"
        /\ Commits
        /\ Last(eng'.trace).mem[<<"$ret", 1>>] = BoolV(Unconsumed > 0)
    ]_vars

\* C28: the run of more on an empty input stream raised RuntimeErr in its
\* first step
C28_EmptyStreamFails ==
    /\ pc = "raised" /\ call.entryfnc = "more" /\ call.ins = <<>>
    /\ result.exc = "RuntimeErr" /\ eng.trace = <<>>

\* a transition of Step in which run returns
RunReturns == pc = "running" /\ pc' = "returned"

\* the value the return pair of the current step computes, before its
\* conversion
ReturnValue ==
    Execute(exprs(Top.fnc, eng.loc)[ReturnPair][2], Prefix(ReturnPair - 1).mem,
            Prefix(ReturnPair - 1).eng).val

\* C29: the trace of a run that returns.  It is the trace of the engine, it
\* has at least one entry, and its last entry is the step the outermost
\* activation ended in, under the name of the entry function; the snapshot
\* of that entry has the primed return slot, and run's return value is what
\* it holds: the value the step's return pair computed, converted to the
\* return type of the entry function, or Undef when the step has no pair
\* that gives the return variable a value.
C29_ReturnProjection ==
    [][RunReturns =>
        /\ result'.kind = "return" /\ result'.trace = eng'.trace
        /\ Len(result'.trace) = Len(eng.trace) + 1
        /\ Len(stack) = 1
        /\ Last(result'.trace).fnc = call.entryfnc
        /\ Last(result'.trace).fnc = Top.fnc.name
        /\ Last(result'.trace).loc = Top.start.loc
        /\ <<"$ret", 1>> \in DOMAIN Last(result'.trace).mem
        /\ eng'.retval = Last(result'.trace).mem[<<"$ret", 1>>]
        /\ eng'.retval = IF ReturnPairs # {}
                         THEN convert(ReturnValue, Top.fnc.rettype).val
                         ELSE UndefValue
    ]_vars

\* C29 witness: run callnone has returned: the trace begins with the step
\* of the nested none and ends with a step of callnone, whose snapshot holds
\* the return value
C29_Witness ==
    /\ pc = "returned" /\ call.entryfnc = "callnone"
    /\ result.trace[1].fnc = "none"
    /\ Last(result.trace).fnc = "callnone"
    /\ eng.retval = Last(result.trace).mem[<<"$ret", 1>>]

\* C30: run leaves the objects of its caller alone.  In every state of a
\* run and after it, returned or raised, the input sequence and the
\* arguments the caller passed are what they were when it called run.
C30_CallerObjectsUnchanged ==
    pc # "idle" => eng.given.ins = call.ins /\ eng.given.args = call.args

\* C30: run sortany([2, 1]) has returned, and the list the caller passed
\* as argument is [1, 2]; its input sequence is as it was
C30_ArgumentSorted ==
    /\ pc = "returned" /\ call.entryfnc = "sortany"
    /\ call.args = <<ListV(<<I(2), I(1)>>)>>
    /\ eng.given.args = <<ListV(<<I(1), I(2)>>)>>
    /\ eng.given.ins = call.ins
    /\ eng.retval = ListV(<<I(1), I(2)>>)

\* a step of a conversion program, the value it converts, the declared type
\* it converts to, and the snapshot it records
ConvStep == pc = "running" /\ Top.fnc.name \in ConvEntries
Converted == Top.mem[N("a")]
Declared == Top.fnc.rettype
Recorded == Last(eng'.trace).mem

\* an integer, a boolean or a one-character string
Scalar(v) == IsInt(v) \/ (v.t = "str" /\ Len(v.v) = 1)

\* the step converts again, to int or to char, what loc 1 converted from a
\* scalar
ConvertsAgain ==
    Top.start.loc = 2 /\ Declared \in {T_int, T_char} /\ Scalar(Converted)

\* C31: conversion preserves definedness.  For every declared type, the
\* step that assigns Undef or null commits, and the slot holds Undef or
\* null; a committed conversion of a defined value leaves no Undef; the
\* activation ends on its return variable iff the value evaluated for it was
\* not Undef; and a scalar converted to int or to char converts again, to
\* the same type, into itself.
C31_ConversionPreservesDefinedness ==
    [][ConvStep =>
        /\ (isundef(Converted) \/ Converted = None \/ ConvertsAgain) => Commits
        /\ Commits =>
              /\ Top.start.loc = 1 =>
                    /\ isundef(Recorded[<<"x", 1>>]) <=> isundef(Converted)
                    /\ Recorded[<<"x", 1>>] = None <=> Converted = None
              /\ ConvertsAgain => Recorded[<<"y", 1>>] = Top.mem[N("x")]
              /\ Top.start.loc = 3 =>
                    /\ isundef(Recorded[<<"$ret", 1>>]) <=> isundef(Converted)
                    /\ Recorded[<<"$ret", 1>>] = None <=> Converted = None
                    /\ pc' = "returned" <=> ~isundef(Converted)
                    /\ Continues <=> isundef(Converted)
    ]_vars

\* C31 witness: run to_int('a') has returned from loc 3: x is 97, y is 97
\* again, and the return value is 97
C31_Witness ==
    /\ pc = "returned" /\ call.entryfnc = "to_int" /\ call.args = <<A_a>>
    /\ StepsOf(eng.trace) = <<<<"to_int", 1>>, <<"to_int", 2>>, <<"to_int", 3>>>>
    /\ eng.trace[1].mem[<<"x", 1>>] = I(97)
    /\ eng.trace[2].mem[<<"y", 1>>] = I(97)
    /\ eng.retval = I(97)

\* ------------------------------------------------------------------------
\* Properties of the harness
\* ------------------------------------------------------------------------
\* what running candidate q on test k of the suite yields on an engine of
\* its own
Ran(q, k) ==
    AloneOn(Candidates[q],
            [entryfnc |-> "f", ins |-> SuiteTests[k].ins, args |-> SuiteTests[k].args],
            [NewEngine EXCEPT !.entryfnc = "f", !.timeout = DefaultTimeout])

\* the pass criterion: no error, the expected output absent or a part of the
\* output, the expected return absent or the value returned
Passes(q, k) ==
    /\ Ran(q, k).kind = "return"
    /\ SuiteTests[k].out = None \/ Contains(SuiteTests[k].out.v, Ran(q, k).output)
    /\ SuiteTests[k].ret = None \/ PyEq(Ran(q, k).retval, SuiteTests[k].ret)

\* a transition in which filter decides the test at its position, and the
\* ways it goes on: with the next test of the program or, after its last
\* test, with the program appended to the correct ones
Decides == harness.pc = "run" /\ harness'.pc # "run"
PassedNow ==
    /\ harness'.pc \in {"loop", "done"}
    /\ IF harness.t < Len(harness.tests)
       THEN harness'.p = harness.p /\ harness'.t = harness.t + 1
       ELSE harness'.correct_progs = Append(harness.correct_progs, harness.p)

\* C22: pass criterion.  Whenever filter decides a test, the program passes
\* it iff its run raises no error, the expected output is absent or a part
\* of the accumulated output, and the expected return is absent or equals
\* the value returned.
C22_PassCriterion ==
    [][Decides =>
        (PassedNow <=> Passes(harness.progs[harness.p], harness.tests[harness.t]))
    ]_vars

\* C22: filter ran good on the test f(2) with no expected output and the
\* expected return 3: the run returned 3, and filter is left by the
\* TypeError of line 25, with no program accepted
C22_AbsentOutputAborts ==
    /\ harness.pc = "aborted" /\ harness.exc = "TypeError"
    /\ harness.progs[harness.p] = "good"
    /\ TestAt.out = None /\ TestAt.ret = I(3)
    /\ pc = "returned" /\ eng.retval = I(3) /\ eng.output = <<111, 107>>
    /\ harness.correct_progs = <<>>

\* whether candidate q passes every test of the suite, and the tests of the
\* suite filter runs on it: up to the first it fails
AllPass(q, suite) == \A k \in 1..Len(suite) : Passes(q, suite[k])
Needed(q, suite) ==
    {k \in 1..Len(suite) : \A j \in 1..(k - 1) : Passes(q, suite[j])}
\* the runs of filter on the programs before position p, and on the first n
\* tests of the program at p
RECURSIVE RunsBefore(_, _, _)
RunsBefore(progs, suite, p) ==
    IF p <= 1 THEN <<>>
    ELSE RunsBefore(progs, suite, p - 1)
            \o [k \in 1..Cardinality(Needed(progs[p - 1], suite)) |-> <<p - 1, k>>]
RunsAt(p, n) == [k \in 1..n |-> <<p, k>>]

\* C23: acceptance.  At every point of a call of filter: the programs
\* appended so far are, in the order of the list, exactly the programs
\* before the current one that pass every test of the suite; the runs made
\* so far are, program by program in the order of the list, the tests of
\* the suite in their order up to the first test the program fails; and
\* the program filter is at has passed every test before the current one.
C23_Acceptance ==
    harness.pc # "idle" =>
        /\ harness.correct_progs
              = SelectSeq([q \in 1..Len(harness.progs) |-> q],
                          LAMBDA q : q < harness.p
                                     /\ AllPass(harness.progs[q], harness.tests))
        /\ harness.ran
              = RunsBefore(harness.progs, harness.tests, harness.p)
                  \o RunsAt(harness.p, IF harness.pc = "done" THEN 0
                                       ELSE IF harness.pc = "loop" THEN harness.t - 1
                                       ELSE harness.t)
        /\ harness.pc # "done" =>
              \A k \in 1..(harness.t - 1) :
                  Passes(harness.progs[harness.p], harness.tests[k])
        /\ harness.pc = "done" => harness.p = Len(harness.progs) + 1

\* C23 witness: filter has returned for the programs quiet, good and the
\* suite f(2), f(0): quiet failed the first test and was not run on the
\* second, good passed both and is the one program returned
C23_Witness ==
    /\ harness.pc = "done"
    /\ harness.progs = <<"quiet", "good">> /\ harness.tests = <<1, 2>>
    /\ harness.ran = <<<<1, 1>>, <<2, 1>>, <<2, 2>>>>
    /\ harness.correct_progs = <<2>>

\* C24 as stated: error policy.  Whatever error a run raises, filter counts
\* the test as failed for the program it is at, and goes on with the next
\* program, or returns when that was the last.
C24_ErrorIsFailedTest ==
    [][Decides /\ pc = "raised" =>
        /\ harness'.pc \in {"loop", "done"}
        /\ harness'.p = harness.p + 1
        /\ harness'.correct_progs = harness.correct_progs
    ]_vars

\* C24: filter ran odd, the first of two programs, on the test f(0): the
\* run raised the AssertionError of execute_Const, which left filter too;
\* the second program, which passes the test, was never run
C24_AssertionLeavesFilter ==
    /\ harness.pc = "aborted" /\ harness.exc = "AssertionError"
    /\ pc = "raised" /\ result.exc = "AssertionError"
    /\ harness.progs = <<"odd", "good">> /\ harness.p = 1
    /\ harness.tests = <<2>> /\ Passes("good", 2)
    /\ harness.ran = <<<<1, 1>>>>

============================================================================
